---- MODULE Spec2Model ----
(***************************************************************************)
(* State-machine model of the two crawlers of doc_assembler_web:           *)
(*   - webcrawler.core.crawler.Crawler         (aiohttp, recursive)        *)
(*   - mcp_server.core.crawler.PlaywrightCrawler (browser, work queue)     *)
(* Strings the code takes apart (hosts, paths, robots.txt lines) are       *)
(* sequences of tokens, so that startswith/endswith are sequence           *)
(* prefix/suffix tests.  Times are integers counting quarter seconds.      *)
(***************************************************************************)
EXTENDS Integers, Sequences, FiniteSets, TLC

VARIABLES
    impl,             \* which crawler class this run instantiates
    config,           \* the CrawlerConfig of the run
    site_robots,      \* environment: what GET https://{domain}/robots.txt answers
    visited_urls,     \* self.visited_urls
    robots_cache,     \* Crawler.robots_cache: domain -> RobotsConfig
    stack,            \* Crawler: the nested crawl_page generator frames
    queue,            \* PlaywrightCrawler.crawl: the local work queue
    results,          \* pages yielded (Crawler) / appended to results (Playwright)
    pc,               \* "running", "done" or "aborted" (an exception left crawl)
    last_attempts,    \* PlaywrightCrawler: page.goto calls of the last _process_url
    last_fetch,       \* history: outcome, HTTP status and back-off sleeps of the last fetch
    fetchLog,         \* history: every page fetch issued, in order
    enqLog,           \* history: every entry ever put on the queue, in order
    robotsRequests,   \* history: robots.txt network requests per domain
    skipped,          \* history: URLs dropped by the robots check
    clock,            \* the time source (quarter seconds)
    last_request_time,\* self.last_request_time
    gate,             \* timing parameters of the rate-limit gate under test
    firstEntry,       \* history: clock when the first pass entered the gate
    exits,            \* history: clock at which each pass left the gate
    handlers,         \* PlaywrightCrawler: wake-up times of sleeping _handle_response tasks
    gotoLog,          \* history: clock and response status of each page.goto
    fn,               \* a function under test: its arguments and, once applied, its result
    proc,             \* PlaywrightCrawler: the _process_url call in progress, await by await
    asset_store,      \* the files in self.asset_dir
    asset_io,         \* history: asset requests issued and files written, in order
    pageLog,          \* history: every page whose processing has ended, and how
    instances,        \* several crawler objects: the attributes and the run of each
    heap,             \* the set, dict and float objects those attributes refer to
    callers,          \* the tasks calling the rate-limit gate of one crawler
    rate_limiter,     \* self.rate_limiter: the semaphore's value and who holds it
    accesses,         \* history: reads and writes of self.last_request_time
    tasks,            \* api.main.tasks: task_id -> task record
    task_ttl,         \* api.main.TASK_TTL
    background,       \* the execute_crawl_task call scheduled for each task
    statusLog         \* history: the statuses each task record has been given, in order

crawlVars == <<impl, config, site_robots, visited_urls, robots_cache, stack, queue,
               results, pc, last_attempts, last_fetch, fetchLog, enqLog, robotsRequests,
               skipped>>
gateVars == <<clock, last_request_time, gate, firstEntry, exits>>
pageVars == <<proc, asset_store, asset_io, pageLog>>
taskVars == <<instances, heap, callers, rate_limiter, accesses>>
apiVars == <<tasks, task_ttl, background, statusLog>>
auxVars == <<handlers, gotoLog, fn, pageVars, taskVars, apiVars>>
vars == <<crawlVars, gateVars, auxVars>>

-----------------------------------------------------------------------------
(* Bounds of the model *)

MaxDepthBound == 2
MaxPagesBound == 4
MaxRetryBound == 2
\* longest configured interval, in quarter seconds
MaxInterval == 2
\* longest time a caller spends between two gate passes
MaxElapse == 2
\* how far asyncio.sleep may overshoot
MaxOversleep == 1
\* gate passes followed
MaxPasses == 3
\* the clock is followed up to here
MaxClock == 10

\* agent blocks in a robots.txt under test
MaxBlocks == 2
\* rules in each list of a RobotsConfig under test
MaxRules == 2
\* anchors on a page under test
MaxAnchors == 3
\* characters of a text under test, and the largest max_chars asked for
MaxTextLen == 6
MaxChars == 3

-----------------------------------------------------------------------------
(* The site: hosts, paths, URLs and page contents *)

Localhost == <<"localhost">>
SubHost == <<"sub", ".", "localhost">>
ExternalHost == <<"external", ".", "com">>

\* a URL or a reference as urlparse splits it; scheme "" and netloc <<>> are the
\* empty components, query tells whether a query or fragment follows the path
Link(scheme, h, p, q) == [scheme |-> scheme, netloc |-> h, path |-> p, query |-> q]

Url(h, p, q) == Link("http", h, p, q)

StartUrl == Url(Localhost, <<"/">>, FALSE)
PrivatePage == Url(Localhost, <<"/", "private", "/", "page">>, FALSE)
PublicPage == Url(Localhost, <<"/", "public", "/", "page">>, FALSE)
PublicPageQ == Url(Localhost, <<"/", "public", "/", "page">>, TRUE)
SubPage == Url(SubHost, <<"/">>, FALSE)
ExternalPage == Url(ExternalHost, <<"/">>, FALSE)

\* The anchor lists a fetched page may carry (hrefs in document order).
PageLinks ==
    { <<>>,
      <<StartUrl>>,
      <<PublicPageQ>>,
      <<PrivatePage, PublicPage>>,
      <<PublicPage, PrivatePage>>,
      <<PublicPage, PublicPage>>,
      <<SubPage, ExternalPage>>,
      <<PrivatePage, PublicPage, PublicPageQ, SubPage>> }

Domains == {Localhost, SubHost}

startswith(s, prefix) ==
    /\ Len(prefix) <= Len(s)
    /\ SubSeq(s, 1, Len(prefix)) = prefix

endswith(s, suffix) ==
    /\ Len(suffix) <= Len(s)
    /\ SubSeq(s, Len(s) - Len(suffix) + 1, Len(s)) = suffix

\* str.lower() on the tokens that occur in the model
LowerTok(t) ==
    CASE t = "User-agent" -> "user-agent"
      [] t = "Disallow" -> "disallow"
      [] t = "Allow" -> "allow"
      [] t = "Crawl-delay" -> "crawl-delay"
      [] t = "CloudCurio Crawler" -> "cloudcurio crawler"
      [] t = "CloudCurio Crawler (+https://cloudcurio.cc)"
             -> "cloudcurio crawler (+https://cloudcurio.cc)"
      [] t = "Docs" -> "docs"
      [] t = "Documentation" -> "documentation"
      [] t = "Installation" -> "installation"
      [] OTHER -> t

lower(s) == [i \in DOMAIN s |-> LowerTok(s[i])]

\* float(text) of a Crawl-delay value: <<quarter seconds>>, or <<>> on ValueError
ParseFloat(t) ==
    CASE t = "1" -> <<4>>
      [] t = "0.5" -> <<2>>
      [] OTHER -> <<>>

\* mcp_server CrawlerConfig.retry_delay: Field(default=1.0), in quarter seconds
DefaultRetryDelay == ParseFloat("1")[1]

-----------------------------------------------------------------------------
(* webcrawler.core.config *)

user_agent == "CloudCurio Crawler (+https://cloudcurio.cc)"

\* CrawlerConfig.set_default_domain: allowed_domains defaults to the start netloc
set_default_domain(start) == <<start.netloc>>

is_allowed_domain(url, allowed_domains) ==
    \E i \in DOMAIN allowed_domains : endswith(url.netloc, allowed_domains[i])

RobotsConfig(allowed, disallowed, delay) ==
    [allowed_paths |-> allowed, disallowed_paths |-> disallowed, crawl_delay |-> delay]

\* lengths of the prefixes in `rules` that the path starts with
MatchLengths(rules, path) ==
    { Len(rules[i]) : i \in { k \in DOMAIN rules : startswith(path, rules[k]) } }

Longest(lengths) == CHOOSE m \in lengths : \A x \in lengths : x <= m

\* Mutant: among the matching rules the longest prefix decides.
is_allowed_longest_match(rc, url) ==
    LET A == MatchLengths(rc.allowed_paths, url.path)
        D == MatchLengths(rc.disallowed_paths, url.path)
    IN IF D = {} THEN (rc.allowed_paths = <<>> \/ A # {})
       ELSE IF A = {} THEN FALSE
       ELSE Longest(A) >= Longest(D)

\* RobotsConfig.is_allowed(url): urlparse(url).path against the prefixes
is_allowed(rc, url) ==
    LET parsed_path == url.path IN
    IF \E i \in DOMAIN rc.disallowed_paths : startswith(parsed_path, rc.disallowed_paths[i])
    THEN FALSE
    ELSE IF rc.allowed_paths # <<>>
         THEN \E i \in DOMAIN rc.allowed_paths : startswith(parsed_path, rc.allowed_paths[i])
         ELSE TRUE

-----------------------------------------------------------------------------
(* robots.txt: a text is a sequence of lines <<field, value>>, value a token
   sequence *)

\* User-agent: * / Disallow: /private/ / Crawl-delay: 1
RobotsDisallowPrivate ==
    << <<"User-agent", <<"*">> >>,
       <<"Disallow", <<"/", "private", "/">> >>,
       <<"Crawl-delay", <<"1">> >> >>

Response(exc, status, text) == [exception |-> exc, status |-> status, text |-> text]

RobotsResponses ==
    { Response(TRUE, 0, <<>>),
      Response(FALSE, 404, <<>>),
      Response(FALSE, 200, RobotsDisallowPrivate) }

\* The line loop of fetch_robots_txt, for a crawler configured with the user agent
\* `ua`; current_agent is <<>> for None.  Every line is lowercased before it is
\* split, the configured user agent is compared as it is.
RECURSIVE ParseRobotsLinesFor(_, _, _, _, _)
ParseRobotsLinesFor(text, i, current_agent, rc, ua) ==
    IF i > Len(text) THEN rc
    ELSE LET field == LowerTok(text[i][1])
             value == lower(text[i][2])
         IN
         IF field = "user-agent"
         THEN ParseRobotsLinesFor(text, i + 1, <<value[1]>>, rc, ua)
         ELSE IF current_agent \in {<<"*">>, <<ua>>}
              THEN ParseRobotsLinesFor(text, i + 1, current_agent,
                     CASE field = "allow" ->
                            [rc EXCEPT !.allowed_paths = Append(@, value)]
                       [] field = "disallow" ->
                            [rc EXCEPT !.disallowed_paths = Append(@, value)]
                       [] field = "crawl-delay" ->
                            IF ParseFloat(value[1]) # <<>>
                            THEN [rc EXCEPT !.crawl_delay = ParseFloat(value[1])]
                            ELSE rc
                       [] OTHER -> rc,
                     ua)
              ELSE ParseRobotsLinesFor(text, i + 1, current_agent, rc, ua)

\* the line loop under the default user agent
ParseRobotsLines(text, i, current_agent, rc) ==
    ParseRobotsLinesFor(text, i, current_agent, rc, user_agent)

ParseRobots(text) == ParseRobotsLines(text, 1, <<>>, RobotsConfig(<<>>, <<>>, <<>>))

\* Mutant: a failed robots.txt request is not caught and leaves fetch_robots_txt.
fetch_robots_txt_uncaught(resp) ==
    [raised |-> resp.exception,
     config |-> IF ~resp.exception /\ resp.status = 200
                THEN ParseRobots(resp.text)
                ELSE RobotsConfig(<<>>, <<>>, <<>>)]

\* fetch_robots_txt on a cache miss: what the request's answer is turned into.
fetch_robots_txt(resp) ==
    [raised |-> FALSE,
     config |-> IF ~resp.exception /\ resp.status = 200
                THEN ParseRobots(resp.text)
                ELSE RobotsConfig(<<>>, <<>>, <<>>)]

\* Mutant: a policy without rules is not cached.
StoreRobotsUnlessEmpty(cache, domain, rc) ==
    IF rc.allowed_paths = <<>> /\ rc.disallowed_paths = <<>>
    THEN cache
    ELSE (domain :> rc) @@ cache

\* self.robots_cache[domain] = config
StoreRobots(cache, domain, rc) == (domain :> rc) @@ cache

-----------------------------------------------------------------------------
(* webcrawler.core.crawler.Crawler *)

\* the path of the base URL up to and including its last "/"
RECURSIVE DirOf(_)
DirOf(path) ==
    IF path = <<>> THEN <<"/">>
    ELSE IF path[Len(path)] = "/" THEN path
    ELSE DirOf(SubSeq(path, 1, Len(path) - 1))

\* urllib.parse.urljoin(base_url, url), dot segments apart
urljoin(base, url) ==
    IF url.scheme = "" /\ url.netloc = <<>> /\ url.path = <<>> /\ ~url.query
    THEN base
    ELSE IF url.scheme # "" THEN url
    ELSE IF url.netloc # <<>> THEN Link(base.scheme, url.netloc, url.path, url.query)
    ELSE IF url.path = <<>> THEN Link(base.scheme, base.netloc, base.path, url.query)
    ELSE IF url.path[1] = "/" THEN Link(base.scheme, base.netloc, url.path, url.query)
    ELSE Link(base.scheme, base.netloc, DirOf(base.path) \o url.path, url.query)

\* Mutant: the result is put together with a "/" between netloc and path.
normalize_url_extra_slash(url, base_url, allowed_domains) ==
    LET parsed == urljoin(base_url, url) IN
    IF parsed.scheme = "" \/ parsed.netloc = <<>> THEN <<>>
    ELSE IF ~is_allowed_domain(parsed, allowed_domains) THEN <<>>
    ELSE <<Link(parsed.scheme, parsed.netloc, <<"/">> \o parsed.path, FALSE)>>

\* normalize_url: <<>> for None, else <<scheme://netloc/path>> (query and fragment
\* are dropped)
normalize_url(url, base_url, allowed_domains) ==
    LET parsed == urljoin(base_url, url) IN
    IF parsed.scheme = "" \/ parsed.netloc = <<>> THEN <<>>
    ELSE IF ~is_allowed_domain(parsed, allowed_domains) THEN <<>>
    ELSE <<Link(parsed.scheme, parsed.netloc, parsed.path, FALSE)>>

\* the link loop of crawl_page: links.append(normalized) for every anchor
RECURSIVE ExtractLinks(_, _, _)
ExtractLinks(hrefs, base_url, allowed_domains) ==
    IF hrefs = <<>> THEN <<>>
    ELSE normalize_url(Head(hrefs), base_url, allowed_domains)
           \o ExtractLinks(Tail(hrefs), base_url, allowed_domains)

Frame(url, depth, phase, links, i) ==
    [url |-> url, depth |-> depth, phase |-> phase, links |-> links, i |-> i]

Top == stack[Len(stack)]
Pop == SubSeq(stack, 1, Len(stack) - 1)
SetTop(f) == [stack EXCEPT ![Len(stack)] = f]

FetchEntry(url, depth) ==
    [url |-> url, depth |-> depth, others |-> Cardinality(visited_urls \ {url})]

\* Mutant: the depth test is off by one.
W_TooDeepOffByOne(depth, max_depth) == depth > max_depth + 1

\* if depth > self.config.max_depth: return
W_TooDeep(depth, max_depth) == depth > max_depth

\* Mutant: the page budget test is off by one.
W_BudgetReachedOffByOne(n, max_pages) == n > max_pages

\* if len(self.visited_urls) >= self.config.max_pages: return
W_BudgetReached(n, max_pages) == n >= max_pages

\* crawl_page entered: depth test, visited test, visited_urls.add(url)
W_Call ==
    /\ impl = "Crawler" /\ pc = "running" /\ stack # <<>>
    /\ Top.phase = "call"
    /\ IF W_TooDeep(Top.depth, config.max_depth) \/ Top.url \in visited_urls
       THEN /\ stack' = Pop
            /\ UNCHANGED visited_urls
       ELSE /\ visited_urls' = visited_urls \cup {Top.url}
            /\ stack' = SetTop([Top EXCEPT !.phase =
                                  IF config.respect_robots THEN "robots" ELSE "fetch"])
    /\ UNCHANGED <<impl, config, site_robots, robots_cache, queue, results, pc,
                   last_attempts, last_fetch, fetchLog, enqLog, robotsRequests, skipped,
                   gateVars, auxVars>>

\* the robots.txt check of crawl_page, fetch_robots_txt included
W_Robots ==
    /\ impl = "Crawler" /\ pc = "running" /\ stack # <<>>
    /\ Top.phase = "robots"
    /\ LET domain == Top.url.netloc
           cached == domain \in DOMAIN robots_cache
           out == fetch_robots_txt(site_robots[domain])
           robots_config == IF cached THEN robots_cache[domain] ELSE out.config
       IN
       /\ robots_cache' = IF cached \/ out.raised THEN robots_cache
                          ELSE StoreRobots(robots_cache, domain, out.config)
       /\ robotsRequests' = IF cached THEN robotsRequests
                            ELSE [robotsRequests EXCEPT ![domain] = @ + 1]
       /\ IF ~cached /\ out.raised
          THEN /\ pc' = "aborted"
               /\ stack' = <<>>
               /\ UNCHANGED skipped
          ELSE IF ~is_allowed(robots_config, Top.url)
          THEN /\ stack' = Pop
               /\ skipped' = skipped \cup {Top.url}
               /\ UNCHANGED pc
          ELSE /\ stack' = SetTop([Top EXCEPT !.phase = "fetch"])
               /\ UNCHANGED <<pc, skipped>>
    /\ UNCHANGED <<impl, config, site_robots, visited_urls, queue, results,
                   last_attempts, last_fetch, fetchLog, enqLog, gateVars, auxVars>>

\* the response status behind each outcome of session.get: only 200 passes the
\* `response.status != 200` test; no response arrives when the request raises
W_Status(outcome) ==
    IF outcome = "ok" THEN 200 ELSE IF outcome = "status" THEN 404 ELSE 0

\* rate-limit gate, session.get(url), link extraction, yield
W_Fetch ==
    /\ impl = "Crawler" /\ pc = "running" /\ stack # <<>>
    /\ Top.phase = "fetch"
    /\ fetchLog' = Append(fetchLog, FetchEntry(Top.url, Top.depth))
    /\ \E outcome \in {"exception", "status", "ok"}, hrefs \in PageLinks :
         /\ last_fetch' = [outcome |-> outcome,
                           status |-> W_Status(outcome),
                           sleeps |-> <<>>]
         /\ IF outcome = "ok"
            THEN LET links == ExtractLinks(hrefs, Top.url, config.allowed_domains) IN
                 /\ results' = Append(results, [url |-> Top.url, links |-> links])
                 /\ stack' = SetTop([Top EXCEPT !.phase = "loop", !.links = links,
                                                !.i = 1])
            ELSE /\ hrefs = <<>>
                 /\ stack' = Pop
                 /\ UNCHANGED results
    /\ UNCHANGED <<impl, config, site_robots, visited_urls, robots_cache, queue, pc,
                   last_attempts, enqLog, robotsRequests, skipped,
                   gateVars, auxVars>>

\* for link in links: budget test, then the nested crawl_page(link, depth + 1)
W_Loop ==
    /\ impl = "Crawler" /\ pc = "running" /\ stack # <<>>
    /\ Top.phase = "loop"
    /\ IF Top.i > Len(Top.links)
          \/ W_BudgetReached(Cardinality(visited_urls), config.max_pages)
       THEN stack' = Pop
       ELSE stack' = Append(SetTop([Top EXCEPT !.i = @ + 1]),
                            Frame(Top.links[Top.i], Top.depth + 1, "call", <<>>, 0))
    /\ UNCHANGED <<impl, config, site_robots, visited_urls, robots_cache, queue, results,
                   pc, last_attempts, last_fetch, fetchLog, enqLog, robotsRequests, skipped,
                   gateVars, auxVars>>

\* crawl(): the outermost generator is exhausted, the session is closed
W_Close ==
    /\ impl = "Crawler" /\ pc = "running" /\ stack = <<>>
    /\ pc' = "done"
    /\ UNCHANGED <<impl, config, site_robots, visited_urls, robots_cache, stack, queue,
                   results, last_attempts, last_fetch, fetchLog, enqLog, robotsRequests, skipped,
                   gateVars, auxVars>>

-----------------------------------------------------------------------------
(* mcp_server.core.crawler.PlaywrightCrawler *)

\* _is_allowed_by_robots
P_is_allowed_by_robots(url, respect_robots) ==
    IF ~respect_robots THEN TRUE ELSE TRUE

\* _filter_urls: same netloc as the start URL, not visited, not yet in the result
RECURSIVE P_filter_urls(_, _, _)
P_filter_urls(urls, visited, filtered) ==
    IF urls = <<>> THEN filtered
    ELSE LET url == Head(urls) IN
         P_filter_urls(Tail(urls), visited,
             IF /\ url.netloc = StartUrl.netloc
                /\ url \notin visited
                /\ \A k \in DOMAIN filtered : filtered[k] # url
             THEN Append(filtered, url)
             ELSE filtered)

\* Mutant: the entry is read and left on the queue.
P_Peek(q) == [entry |-> Head(q), rest |-> q]

\* Mutant: the queue is popped at its tail.
P_PopLast(q) == [entry |-> q[Len(q)], rest |-> SubSeq(q, 1, Len(q) - 1)]

\* url, depth = queue.pop(0)
P_Pop(q) == [entry |-> Head(q), rest |-> Tail(q)]

\* while queue and len(self.visited_urls) < self.config.max_pages
P_LoopCondition(q, n, max_pages) == q # <<>> /\ n < max_pages

QueueEntries(urls, depth) == [k \in DOMAIN urls |-> [url |-> urls[k], depth |-> depth]]

\* an iteration that ends in `continue` before any request
P_Skip ==
    /\ impl = "PlaywrightCrawler" /\ pc = "running"
    /\ P_LoopCondition(queue, Cardinality(visited_urls), config.max_pages)
    /\ LET e == P_Pop(queue).entry IN
       /\ \/ e.depth > config.max_depth
          \/ e.url \in visited_urls
          \/ ~P_is_allowed_by_robots(e.url, config.respect_robots)
       /\ queue' = P_Pop(queue).rest
    /\ UNCHANGED <<impl, config, site_robots, visited_urls, robots_cache, stack, results,
                   pc, last_attempts, last_fetch, fetchLog, enqLog, robotsRequests, skipped,
                   gateVars, auxVars>>

\* what the responses of a page can carry; page.goto raises on no status
Statuses == {200, 404}

\* Mutant: the first back-off is skipped.
P_BackoffFromZero(retry_delay, attempt) == retry_delay * attempt

\* the except branch of _process_url: asyncio.sleep(retry_delay * (attempt + 1))
P_Backoff(retry_delay, attempt) == retry_delay * (attempt + 1)

\* _process_url: the `for attempt in range(retry_attempts)` loop.  outs[k] is what
\* the k-th attempt would do: "raise" (page.goto or a later step raises), "none"
\* (no content, or an unwanted classification) or "ok".
RECURSIVE P_process_url(_, _, _, _, _)
P_process_url(outs, attempt, retry_attempts, retry_delay, sleeps) ==
    IF attempt >= retry_attempts
    THEN [result |-> "none", gotos |-> attempt, sleeps |-> sleeps]
    ELSE IF outs[attempt + 1] = "raise"
         THEN IF attempt = retry_attempts - 1
              THEN [result |-> "raise", gotos |-> attempt + 1, sleeps |-> sleeps]
              ELSE P_process_url(outs, attempt + 1, retry_attempts, retry_delay,
                                 Append(sleeps, P_Backoff(retry_delay, attempt)))
         ELSE [result |-> outs[attempt + 1], gotos |-> attempt + 1, sleeps |-> sleeps]

\* the first `failed` attempts raise, the next one ends with `outcome`
AttemptOutcomes(failed, outcome, retry_attempts) ==
    [k \in 1..retry_attempts |-> IF k <= failed THEN "raise" ELSE outcome]

\* Mutant: the exception of _process_url leaves crawl.
P_crawl_propagates(result) == IF result = "raise" THEN "aborted" ELSE "running"

\* crawl: `except Exception as e: logger.error(...)`; the while loop goes on
P_crawl_except(result) == "running"

\* an iteration that reaches _respect_rate_limit and _process_url
P_Process ==
    /\ impl = "PlaywrightCrawler" /\ pc = "running"
    /\ P_LoopCondition(queue, Cardinality(visited_urls), config.max_pages)
    /\ LET e == P_Pop(queue).entry
           rest == P_Pop(queue).rest
       IN
       /\ ~(e.depth > config.max_depth)
       /\ e.url \notin visited_urls
       /\ P_is_allowed_by_robots(e.url, config.respect_robots)
       /\ fetchLog' = Append(fetchLog, FetchEntry(e.url, e.depth))
       /\ \E failed \in 0..config.retry_attempts :
          \E outcome \in IF failed = config.retry_attempts THEN {"none"}
                          ELSE {"none", "ok"} :
          \E status \in IF failed = config.retry_attempts THEN {200} ELSE Statuses :
          \E hrefs \in IF outcome = "ok" THEN PageLinks ELSE {<<>>} :
            LET r == P_process_url(AttemptOutcomes(failed, outcome, config.retry_attempts),
                                   0, config.retry_attempts, config.retry_delay, <<>>)
            IN
            /\ last_attempts' = r.gotos
            /\ last_fetch' = [outcome |-> r.result,
                              status |-> IF r.result = "raise" THEN 0 ELSE status,
                              sleeps |-> r.sleeps]
            /\ pc' = P_crawl_except(r.result)
            /\ IF r.result = "raise"
               THEN \* every attempt raised: the last one re-raises, crawl logs it
                    /\ outcome = "none" /\ hrefs = <<>> /\ status = 200
                    /\ queue' = rest
                    /\ UNCHANGED <<visited_urls, results, enqLog>>
               ELSE IF r.result = "none"
               THEN \* no content extracted, or the classification is not wanted
                    /\ hrefs = <<>>
                    /\ queue' = rest
                    /\ UNCHANGED <<visited_urls, results, enqLog>>
               ELSE /\ visited_urls' = visited_urls \cup {e.url}
                    /\ results' = Append(results, [url |-> e.url, links |-> hrefs])
                    /\ LET new_urls == IF e.depth < config.max_depth
                                       THEN P_filter_urls(hrefs, visited_urls', <<>>)
                                       ELSE <<>>
                       IN /\ queue' = rest \o QueueEntries(new_urls, e.depth + 1)
                          /\ enqLog' = enqLog \o QueueEntries(new_urls, e.depth + 1)
    /\ UNCHANGED <<impl, config, site_robots, robots_cache, stack,
                   robotsRequests, skipped,
                   gateVars, auxVars>>

\* the while condition fails: return results
P_Return ==
    /\ impl = "PlaywrightCrawler" /\ pc = "running"
    /\ ~P_LoopCondition(queue, Cardinality(visited_urls), config.max_pages)
    /\ pc' = "done"
    /\ UNCHANGED <<impl, config, site_robots, visited_urls, robots_cache, stack, queue,
                   results, last_attempts, last_fetch, fetchLog, enqLog, robotsRequests, skipped,
                   gateVars, auxVars>>

-----------------------------------------------------------------------------
(* Crawl runs *)

GateIdle ==
    /\ clock = 0 /\ last_request_time = 0
    /\ gate = [interval |-> 0, request_period |-> 0, crawl_delay |-> <<>>]
    /\ firstEntry = 0 /\ exits = <<>>

NoFetch == [outcome |-> "", status |-> 0, sleeps |-> <<>>]

\* no _process_url call is in progress
NoPage == [stage |-> "idle"]

PageIdle ==
    /\ proc = NoPage /\ asset_store = {} /\ asset_io = <<>> /\ pageLog = <<>>

\* no task has been created
ApiIdle ==
    /\ tasks = <<>> /\ task_ttl = 0 /\ background = <<>> /\ statusLog = <<>>

TasksIdle ==
    /\ instances = <<>> /\ heap = <<>>
    /\ callers = <<>> /\ rate_limiter = <<>> /\ accesses = {}

AuxIdle ==
    /\ handlers = {} /\ gotoLog = <<>>
    /\ fn = [op |-> "", arg |-> <<>>, done |-> FALSE, out |-> <<>>]
    /\ PageIdle /\ ApiIdle /\ TasksIdle

Init ==
    /\ impl \in {"Crawler", "PlaywrightCrawler"}
    /\ \E d \in 1..MaxDepthBound, p \in 1..MaxPagesBound, r \in BOOLEAN,
          a \in 1..MaxRetryBound :
         /\ impl = "Crawler" => a = 1
         \* _is_allowed_by_robots answers the same whatever respect_robots says:
         \* the PlaywrightCrawler is followed under the setting that consults it
         /\ impl = "PlaywrightCrawler" => r
         /\ config = [start_url |-> StartUrl,
                      max_depth |-> d,
                      max_pages |-> p,
                      respect_robots |-> r,
                      retry_attempts |-> a,
                      retry_delay |-> DefaultRetryDelay,
                      allowed_domains |-> set_default_domain(StartUrl)]
    /\ site_robots \in [Domains -> RobotsResponses]
    \* only a Crawler that respects robots.txt ever asks the site for it
    /\ (impl = "PlaywrightCrawler" \/ ~config.respect_robots)
          => site_robots = [d \in Domains |-> Response(FALSE, 200, RobotsDisallowPrivate)]
    /\ visited_urls = {}
    /\ robots_cache = <<>>
    /\ stack = IF impl = "Crawler" THEN <<Frame(StartUrl, 0, "call", <<>>, 0)>> ELSE <<>>
    /\ queue = IF impl = "PlaywrightCrawler"
               THEN <<[url |-> StartUrl, depth |-> 0]>> ELSE <<>>
    /\ results = <<>>
    /\ pc = "running"
    /\ last_attempts = 0
    /\ last_fetch = NoFetch
    /\ fetchLog = <<>>
    /\ enqLog = queue
    /\ robotsRequests = [d \in Domains |-> 0]
    /\ skipped = {}
    /\ GateIdle
    /\ AuxIdle

Next ==
    \/ W_Call
    \/ W_Robots
    \/ W_Fetch
    \/ W_Loop
    \/ W_Close
    \/ P_Skip
    \/ P_Process
    \/ P_Return

Spec == Init /\ [][Next]_vars

-----------------------------------------------------------------------------
(* The rate-limit gates, followed against a clock *)

\* Crawler._wait_for_rate_limit: [clock, last_request_time] after the call,
\* the sleep overshooting by `over`
W_wait_for_rate_limit(now, last, delay_between_requests, over) ==
    LET time_since_last == now - last
        woke == IF time_since_last < delay_between_requests
                THEN now + (delay_between_requests - time_since_last) + over
                ELSE now
    IN [clock |-> woke, last_request_time |-> woke]

\* PlaywrightCrawler._respect_rate_limit, 1.0 / rate_limit given as `period`
P_respect_rate_limit(now, last, period, over) ==
    LET time_since_last == now - last
        woke == IF time_since_last < period
                THEN now + (period - time_since_last) + over
                ELSE now
    IN [clock |-> woke, last_request_time |-> now]

CrawlIdle ==
    /\ config = [start_url |-> StartUrl, max_depth |-> 1, max_pages |-> 1,
                 respect_robots |-> TRUE, retry_attempts |-> 1,
                 retry_delay |-> DefaultRetryDelay,
                 allowed_domains |-> set_default_domain(StartUrl)]
    /\ site_robots = [d \in Domains |-> Response(FALSE, 200, RobotsDisallowPrivate)]
    /\ visited_urls = {} /\ robots_cache = <<>> /\ stack = <<>> /\ queue = <<>>
    /\ results = <<>> /\ pc = "running" /\ last_attempts = 0
    /\ last_fetch = NoFetch
    /\ fetchLog = <<>> /\ enqLog = <<>>
    /\ robotsRequests = [d \in Domains |-> 0] /\ skipped = {}

InitGate ==
    /\ impl \in {"Crawler", "PlaywrightCrawler"}
    /\ CrawlIdle
    /\ clock \in 0..MaxInterval
    /\ last_request_time = 0
    /\ \E i \in 1..MaxInterval, p \in 1..MaxInterval,
          rc \in {RobotsConfig(<<>>, <<>>, <<>>), ParseRobots(RobotsDisallowPrivate)} :
         /\ impl = "PlaywrightCrawler" => (p = i /\ rc.crawl_delay = <<>>)
         /\ gate = [interval |-> i, request_period |-> p, crawl_delay |-> rc.crawl_delay]
    /\ firstEntry = 0
    /\ exits = <<>>
    /\ AuxIdle

\* the caller is busy (fetching, parsing) or simply comes back later
G_Elapse ==
    /\ \E d \in 1..MaxElapse :
         /\ clock + d <= MaxClock
         /\ clock' = clock + d
    /\ UNCHANGED <<crawlVars, auxVars, last_request_time, gate, firstEntry, exits>>

\* one pass of the Crawler through its gate; the page request follows at once
G_CrawlerPass ==
    /\ impl = "Crawler" /\ Len(exits) < MaxPasses
    /\ \E over \in 0..MaxOversleep :
         LET after == W_wait_for_rate_limit(clock, last_request_time, gate.interval, over) IN
         /\ after.clock <= MaxClock
         /\ clock' = after.clock
         /\ last_request_time' = after.last_request_time
         /\ exits' = Append(exits, after.clock)
    /\ firstEntry' = IF exits = <<>> THEN clock ELSE firstEntry
    /\ UNCHANGED <<crawlVars, auxVars, gate>>

\* one pass of the PlaywrightCrawler through its gate
G_PlaywrightPass ==
    /\ impl = "PlaywrightCrawler" /\ Len(exits) < MaxPasses
    /\ \E over \in 0..MaxOversleep :
         LET after == P_respect_rate_limit(clock, last_request_time, gate.interval, over) IN
         /\ after.clock <= MaxClock
         /\ clock' = after.clock
         /\ last_request_time' = after.last_request_time
         /\ exits' = Append(exits, after.clock)
    /\ firstEntry' = IF exits = <<>> THEN clock ELSE firstEntry
    /\ UNCHANGED <<crawlVars, auxVars, gate>>

NextGate ==
    \/ G_Elapse
    \/ G_CrawlerPass
    \/ G_PlaywrightPass

SpecGate == InitGate /\ [][NextGate]_vars

-----------------------------------------------------------------------------
(* PlaywrightCrawler._classify_content; a confidence is a number of thirtieths *)

\* re.search(r'/(docs|documentation|wiki|guide|manual)/', url, re.I) on the URL
\* string scheme://netloc+path: one of the words between two slashes
UrlPatternFound(url) ==
    LET chars == <<"/">> \o url.netloc \o url.path IN
    \E i \in 1..(Len(chars) - 2) :
        /\ chars[i] = "/"
        /\ LowerTok(chars[i + 1]) \in {"docs", "documentation", "wiki", "guide", "manual"}
        /\ chars[i + 2] = "/"

\* any(key for key in metadata if "documentation" in key.lower()); a key is a
\* sequence of word tokens
MetadataTagFound(metadata) ==
    \E key \in metadata : \E i \in DOMAIN key : LowerTok(key[i]) = "documentation"

\* any(marker in text for marker in markers) on the lowercased text
ContentMarkersFound(text) ==
    \E i \in DOMAIN text :
        LowerTok(text[i]) \in {"installation", "getting started", "api reference",
                                "usage", "example"}

\* Mutant: the confidence is the share of two features.
P_confidence_of_two(n) == IF n * 15 < 30 THEN n * 15 ELSE 30

\* confidence = min(len(features) / 3, 1.0)
P_confidence(n) == IF n * 10 < 30 THEN n * 10 ELSE 30

P_classify_content(url, content) ==
    LET features ==
            (IF UrlPatternFound(url) THEN <<"url_pattern">> ELSE <<>>)
            \o (IF MetadataTagFound(content.metadata) THEN <<"metadata_tag">> ELSE <<>>)
            \o (IF ContentMarkersFound(content.text) THEN <<"content_markers">> ELSE <<>>)
        confidence == P_confidence(Len(features))
        \* the thresholds 0.7 and 0.4
        doc_type == IF confidence >= 21 THEN "documentation"
                    ELSE IF confidence >= 12 THEN "guide"
                    ELSE "unknown"
    IN [type |-> doc_type, confidence |-> confidence, features |-> features]

\* page URLs, metadata keys and texts a page under classification can have
ClassifiedUrls ==
    { Url(h, pa, FALSE) :
        h \in {Localhost, <<"docs">>, <<"docs", ".", "localhost">>},
        pa \in { <<"/">>, <<"/", "docs", "/", "intro">>, <<"/", "Docs", "/">>,
                 <<"/", "docs">>, <<"/", "blog", "/", "guide", "/">> } }

MetadataKeys ==
    { <<"description">>, <<"Documentation">>, <<"og:", "documentation", "-version">> }

PageTexts ==
    { <<>>, <<"hello", "world">>, <<"Installation", "steps">>,
      <<"an", "example", "of", "usage">> }

-----------------------------------------------------------------------------
(* PlaywrightCrawler: the crawl loop and the "response" event handler *)

\* _handle_response runs as a task of its own, started by the page's "response"
\* event: the wake-up times of the sleeps it starts at `now`
P_handle_response(status, now, retry_delay) ==
    IF status = 429 THEN {now + retry_delay * 2} ELSE {}

InitCooldown ==
    /\ impl = "PlaywrightCrawler"
    /\ CrawlIdle
    /\ clock = 0 /\ last_request_time = 0
    /\ \E p \in 1..MaxInterval, r \in 1..MaxInterval :
         gate = [interval |-> p, request_period |-> p, crawl_delay |-> <<>>,
                 retry_delay |-> r]
    /\ firstEntry = 0 /\ exits = <<>>
    /\ AuxIdle

\* time passes: the page loads, content is extracted, the caller is descheduled
K_Elapse ==
    /\ \E d \in 1..MaxElapse :
         /\ clock + d <= MaxClock
         /\ clock' = clock + d
    /\ UNCHANGED <<crawlVars, last_request_time, gate, firstEntry, exits,
                   handlers, gotoLog, fn, pageVars, taskVars, apiVars>>

\* one iteration of the while loop of crawl: _respect_rate_limit, then page.goto
\* of _process_url; the response fires the "response" event
K_Iteration ==
    /\ Len(gotoLog) < MaxPasses
    /\ \E over \in 0..MaxOversleep, status \in {200, 429} :
         LET after == P_respect_rate_limit(clock, last_request_time,
                                           gate.request_period, over)
         IN
         /\ after.clock <= MaxClock
         /\ clock' = after.clock
         /\ last_request_time' = after.last_request_time
         /\ gotoLog' = Append(gotoLog, [at |-> after.clock, status |-> status])
         /\ handlers' = handlers \cup
                          P_handle_response(status, after.clock, gate.retry_delay)
    /\ UNCHANGED <<crawlVars, gate, firstEntry, exits, fn, pageVars, taskVars, apiVars>>

\* the sleep of a _handle_response task is over and the task ends
K_HandlerDone ==
    /\ \E h \in handlers :
         /\ h <= clock
         /\ handlers' = handlers \ {h}
    /\ UNCHANGED <<crawlVars, gateVars, gotoLog, fn, pageVars, taskVars, apiVars>>

NextCooldown ==
    \/ K_Elapse
    \/ K_Iteration
    \/ K_HandlerDone

SpecCooldown == InitCooldown /\ [][NextCooldown]_vars

-----------------------------------------------------------------------------
(* Functions applied to drawn arguments: fn holds the arguments, then the result *)

Call(op, arg) == [op |-> op, arg |-> arg, done |-> FALSE, out |-> <<>>]

\* the two agent blocks of SAMPLE_ROBOTS_TXT, and a block for another crawler
StarBlock ==
    << <<"User-agent", <<"*">> >>,
       <<"Disallow", <<"/", "private", "/">> >>,
       <<"Allow", <<"/", "public", "/">> >>,
       <<"Crawl-delay", <<"1">> >> >>

NamedBlock ==
    << <<"User-agent", <<"CloudCurio Crawler">> >>,
       <<"Allow", <<"/">> >>,
       <<"Crawl-delay", <<"0.5">> >> >>

FullNameBlock ==
    << <<"User-agent", <<"CloudCurio Crawler (+https://cloudcurio.cc)">> >>,
       <<"Allow", <<"/">> >>,
       <<"Crawl-delay", <<"0.5">> >> >>

OtherBlock ==
    << <<"User-agent", <<"otherbot">> >>,
       <<"Disallow", <<"/">> >> >>

RobotsBlocks == {StarBlock, NamedBlock, FullNameBlock, OtherBlock}

SAMPLE_ROBOTS_TXT == StarBlock \o NamedBlock

RECURSIVE Concat(_)
Concat(blocks) == IF blocks = <<>> THEN <<>> ELSE Head(blocks) \o Concat(Tail(blocks))

\* robots.txt files of up to MaxBlocks agent blocks, no block twice
RobotsTexts ==
    { Concat(bs) : bs \in { q \in UNION { [1..n -> RobotsBlocks] : n \in 0..MaxBlocks } :
                               \A i, j \in DOMAIN q : i # j => q[i] # q[j] } }

\* CrawlerConfig.user_agent: the default, and two that are already lowercase
UserAgents == {user_agent, "cloudcurio crawler", "otherbot"}

\* prefixes a robots.txt rule can carry; <<>> is the empty value
RulePrefixes ==
    { <<>>, <<"/">>, <<"/", "private", "/">>, <<"/", "private", "/", "public", "/">>,
      <<"/", "public", "/">> }

RuleLists == UNION { [1..n -> RulePrefixes] : n \in 0..MaxRules }

TestPaths ==
    { <<>>, <<"/">>, <<"/", "private", "/", "page">>,
      <<"/", "private", "/", "public", "/", "page">>,
      <<"/", "public", "/", "page">>, <<"/", "other">> }

\* the test server's netloc, and a host that merely ends like the allowed one
LocalhostPort == <<"localhost", ":8080">>
NotLocalhost == <<"not", "localhost">>

\* href values of anchors, as urlparse would split them
Hrefs ==
    { h \in { Link(sc, n, pa, q) :
                sc \in {"", "http", "mailto"},
                n \in {<<>>, Localhost, LocalhostPort, SubHost, NotLocalhost, ExternalHost},
                pa \in {<<>>, <<"/">>, <<"/", "page1">>, <<"page2">>},
                q \in BOOLEAN } :
        /\ h.scheme = "mailto" => (h.netloc = <<>> /\ h.path = <<"page2">> /\ ~h.query)
        /\ (h.scheme = "http") => h.netloc # <<>>
        /\ (h.netloc # <<>> /\ h.path # <<>>) => h.path[1] = "/" }

BaseUrls ==
    { Url(LocalhostPort, <<"/">>, FALSE), Url(LocalhostPort, <<>>, FALSE),
      Url(Localhost, <<"/">>, FALSE), Url(Localhost, <<"/", "private", "/", "page">>, TRUE) }

AllowedDomainLists == { <<Localhost>>, <<LocalhostPort>>, <<Localhost, ExternalHost>> }

\* the anchors of the test page, and one the page spells out in full
Page1 == Link("", <<>>, <<"/", "page1">>, FALSE)
Page2 == Link("", <<>>, <<"/", "page2">>, FALSE)
ExternalLink == Link("http", ExternalHost, <<>>, FALSE)
Page1Absolute == Link("http", LocalhostPort, <<"/", "page1">>, FALSE)

AnchorLists ==
    UNION { [1..n -> {Page1, Page2, ExternalLink, Page1Absolute}] : n \in 0..MaxAnchors }

\* webcrawler CrawlerConfig.validate_start_url raises unless urlparse finds a
\* scheme and a netloc
validate_start_url(v) == v.scheme = "" \/ v.netloc = <<>>

\* webcrawler CrawlerConfig(...): the two validators are all that is checked;
\* set_default_domain sees start_url only when it passed its validator
W_CrawlerConfig(start_url, max_depth, requests_per_second, allowed_domains) ==
    LET raised == validate_start_url(start_url) IN
    [raised |-> raised,
     allowed_domains |-> IF allowed_domains = <<>> /\ ~raised
                         THEN set_default_domain(start_url)
                         ELSE allowed_domains]

\* mcp_server CrawlerConfig(...): start_url: HttpUrl, max_depth: ge=1,
\* rate_limit: gt=0.0; the class has no allowed_domains
P_CrawlerConfig(start_url, max_depth, rate_limit) ==
    [raised |-> \/ start_url.scheme \notin {"http", "https"}
                \/ start_url.netloc = <<>>
                \/ ~(max_depth >= 1)
                \/ ~(rate_limit > 0),
     allowed_domains |-> <<>>]

\* start URLs given to a configuration: two absolute ones, "invalid-url" and
\* "//localhost/"
ConfigStartUrls ==
    { StartUrl, Url(LocalhostPort, <<"/">>, FALSE),
      Link("", <<>>, <<"invalid-url">>, FALSE), Link("", Localhost, <<"/">>, FALSE) }

\* URLs asked of is_allowed_domain
ConfigTestUrls ==
    { PublicPage, Url(LocalhostPort, <<"/", "page1">>, FALSE), SubPage, ExternalPage }

\* rule lines of a robots.txt block; `Disallow:` with nothing after the colon
\* has the empty value
OpenRules ==
    { <<"Disallow", <<>> >>,
      <<"Disallow", <<"/", "private", "/">> >>,
      <<"Allow", <<"/", "public", "/">> >> }

\* robots.txt files of one `User-agent: *` block with up to MaxRules rule lines
OpenTexts ==
    { << <<"User-agent", <<"*">> >> >> \o q :
        q \in UNION { [1..n -> OpenRules] : n \in 1..MaxRules } }

\* ingestion.chunker: a text is a sequence of characters, " " is whitespace

\* str.split(): the maximal runs of non-whitespace characters, in order; `word`
\* is the run being read
RECURSIVE split(_, _)
split(text, word) ==
    IF text = <<>> THEN (IF word = <<>> THEN <<>> ELSE <<word>>)
    ELSE IF Head(text) = " "
         THEN (IF word = <<>> THEN <<>> ELSE <<word>>) \o split(Tail(text), <<>>)
         ELSE split(Tail(text), Append(word, Head(text)))

\* " ".join(words)
RECURSIVE join(_)
join(words) ==
    IF words = <<>> THEN <<>>
    ELSE IF Len(words) = 1 THEN words[1]
    ELSE words[1] \o <<" ">> \o join(Tail(words))

\* the `for word in words` loop of chunk_text and the statements after it
RECURSIVE ChunkLoop(_, _, _, _, _)
ChunkLoop(words, chunks, current, length, max_chars) ==
    IF words = <<>>
    THEN IF current # <<>> THEN Append(chunks, join(current)) ELSE chunks
    ELSE LET word == Head(words) IN
         IF length + Len(word) + 1 > max_chars
         THEN ChunkLoop(Tail(words), Append(chunks, join(current)), <<word>>,
                        Len(word) + 1, max_chars)
         ELSE ChunkLoop(Tail(words), chunks, Append(current, word),
                        length + Len(word) + 1, max_chars)

chunk_text(text, max_chars) == ChunkLoop(split(text, <<>>), <<>>, <<>>, 0, max_chars)

\* texts of up to MaxTextLen characters
Texts == UNION { [1..n -> {"a", "b", " "}] : n \in 0..MaxTextLen }

\* Asset records and the download of one asset (mcp_server)

\* two asset URLs of the site
Logo == Url(Localhost, <<"/", "logo", ".png">>, FALSE)
Manual == Url(ExternalHost, <<"/", "manual", ".pdf">>, FALSE)

\* CrawlerConfig.max_asset_size: Field(default=10_485_760)
DefaultMaxAssetSize == 10485760

\* Asset: local_path and error are <<>> for None
Asset(url, size, local_path, downloaded, error) ==
    [url |-> url, size |-> size, local_path |-> local_path,
     downloaded |-> downloaded, error |-> error]

\* file_path = self.asset_dir / f"{sha256(url)}{suffix}": one file per asset URL
FilePath(url) == <<"assets", url>>

\* Mutant: the record of a stored asset keeps the default downloaded=False.
P_AssetNotMarked(url, size) == Asset(url, size, <<FilePath(url)>>, FALSE, <<>>)

\* the three return statements of _download_asset
P_AssetTooLarge(url, size) == Asset(url, size, <<>>, FALSE, <<"File too large">>)

P_AssetDownloaded(url, size) == Asset(url, size, <<FilePath(url)>>, TRUE, <<>>)

P_AssetFailed(url, e) == Asset(url, 0, <<>>, FALSE, <<e>>)

\* Mutant: the size limit is never applied.
P_NeverTooLarge(size, max_asset_size) == FALSE

\* if size > self.config.max_asset_size
P_TooLarge(size, max_asset_size) == size > max_asset_size

\* what the HEAD probe of an asset answers: it raises, or it answers with or
\* without a Content-Length header (<<>> when the header is missing)
Probe(raises, content_length) == [raises |-> raises, content_length |-> content_length]

\* what the GET of an asset answers: it raises, or a status and a body of so many bytes
Download(raises, status, body) == [raises |-> raises, status |-> status, body |-> body]

\* size = int(response.headers.get("content-length", 0))
P_ContentLength(headers) ==
    IF headers.content_length = <<>> THEN 0 ELSE headers.content_length[1]

\* _download_asset, against a storage that accepts the write: the Asset returned
\* (<<>> for None) and the number of bytes written to file_path (<<>> when no
\* file is written)
P_download_asset(url, head, get, max_asset_size) ==
    IF head.raises
    THEN [asset |-> <<P_AssetFailed(url, "Cannot connect")>>, written |-> <<>>]
    ELSE LET size == P_ContentLength(head) IN
         IF P_TooLarge(size, max_asset_size)
         THEN [asset |-> <<P_AssetTooLarge(url, size)>>, written |-> <<>>]
         ELSE IF get.raises
         THEN [asset |-> <<P_AssetFailed(url, "Cannot connect")>>, written |-> <<>>]
         ELSE IF get.status = 200
         THEN [asset |-> <<P_AssetDownloaded(url, size)>>, written |-> <<get.body>>]
         ELSE [asset |-> <<>>, written |-> <<>>]

\* body lengths of the assets of the site: small, at the default limit, above it
BodySizes == {1024, DefaultMaxAssetSize, DefaultMaxAssetSize + 1}

\* the probes and downloads an asset URL can answer with
Probes ==
    {Probe(TRUE, <<>>), Probe(FALSE, <<>>)}
        \cup {Probe(FALSE, <<n>>) : n \in BodySizes}

Downloads ==
    {Download(TRUE, 0, 0)}
        \cup {Download(FALSE, status, body) : status \in {200, 404}, body \in BodySizes}

InitFn ==
    /\ impl = "Crawler"
    /\ CrawlIdle /\ GateIdle
    /\ handlers = {} /\ gotoLog = <<>>
    /\ PageIdle /\ ApiIdle /\ TasksIdle
    /\ \/ \E text \in RobotsTexts, ua \in UserAgents :
            fn = Call("fetch_robots_txt", [text |-> text, user_agent |-> ua])
       \/ \E a \in RuleLists, d \in RuleLists, path \in TestPaths :
            fn = Call("is_allowed", [rc |-> RobotsConfig(a, d, <<>>),
                                     url |-> Url(Localhost, path, FALSE)])
       \/ \E url \in Hrefs, base \in BaseUrls, allowed \in AllowedDomainLists :
            fn = Call("normalize_url", [url |-> url, base_url |-> base,
                                        allowed_domains |-> allowed])
       \/ \E url \in ClassifiedUrls, md \in SUBSET MetadataKeys, text \in PageTexts :
            fn = Call("_classify_content", [url |-> url,
                                            content |-> [metadata |-> md, text |-> text]])
       \/ \E hrefs \in AnchorLists, base \in BaseUrls, allowed \in AllowedDomainLists :
            fn = Call("crawl_page", [hrefs |-> hrefs, base_url |-> base,
                                     allowed_domains |-> allowed])
       \/ \E cls \in {"webcrawler", "mcp_server"}, start \in ConfigStartUrls,
             depth \in {0, 1, 3}, rate \in {-1, 0, 2},
             allowed \in {<<>>, <<ExternalHost>>}, url \in ConfigTestUrls :
            fn = Call("CrawlerConfig", [cls |-> cls, start_url |-> start,
                                        max_depth |-> depth, rate |-> rate,
                                        allowed_domains |-> allowed, url |-> url])
       \/ \E text \in Texts, max_chars \in 1..MaxChars :
            fn = Call("chunk_text", [text |-> text, max_chars |-> max_chars])
       \/ \E text \in OpenTexts, path \in TestPaths :
            fn = Call("robots_config.is_allowed",
                      [text |-> text, url |-> Url(Localhost, path, FALSE)])
       \/ \E url \in {Logo, Manual}, head \in Probes, get \in Downloads,
             max \in {1024, DefaultMaxAssetSize} :
            fn = Call("_download_asset", [url |-> url, head |-> head, get |-> get,
                                          max_asset_size |-> max])

\* the parse that fetch_robots_txt makes of a 200 answer
F_fetch_robots_txt ==
    /\ fn.op = "fetch_robots_txt" /\ ~fn.done
    /\ fn' = [fn EXCEPT !.done = TRUE,
                        !.out = ParseRobotsLinesFor(fn.arg.text, 1, <<>>,
                                   RobotsConfig(<<>>, <<>>, <<>>), fn.arg.user_agent)]
    /\ UNCHANGED <<crawlVars, gateVars, handlers, gotoLog, pageVars, taskVars, apiVars>>

F_is_allowed ==
    /\ fn.op = "is_allowed" /\ ~fn.done
    /\ fn' = [fn EXCEPT !.done = TRUE, !.out = is_allowed(fn.arg.rc, fn.arg.url)]
    /\ UNCHANGED <<crawlVars, gateVars, handlers, gotoLog, pageVars, taskVars, apiVars>>

\* normalize_url, and normalize_url again on what it returned
F_normalize_url ==
    /\ fn.op = "normalize_url" /\ ~fn.done
    /\ LET once == normalize_url(fn.arg.url, fn.arg.base_url, fn.arg.allowed_domains)
           twice == IF once = <<>> THEN <<>>
                    ELSE normalize_url(once[1], fn.arg.base_url, fn.arg.allowed_domains)
       IN fn' = [fn EXCEPT !.done = TRUE, !.out = [once |-> once, twice |-> twice]]
    /\ UNCHANGED <<crawlVars, gateVars, handlers, gotoLog, pageVars, taskVars, apiVars>>

\* the link extraction of crawl_page on a fetched page
F_crawl_page_links ==
    /\ fn.op = "crawl_page" /\ ~fn.done
    /\ fn' = [fn EXCEPT !.done = TRUE,
                        !.out = ExtractLinks(fn.arg.hrefs, fn.arg.base_url,
                                             fn.arg.allowed_domains)]
    /\ UNCHANGED <<crawlVars, gateVars, handlers, gotoLog, pageVars, taskVars, apiVars>>

F_classify_content ==
    /\ fn.op = "_classify_content" /\ ~fn.done
    /\ fn' = [fn EXCEPT !.done = TRUE,
                        !.out = P_classify_content(fn.arg.url, fn.arg.content)]
    /\ UNCHANGED <<crawlVars, gateVars, handlers, gotoLog, pageVars, taskVars, apiVars>>

\* a configuration is constructed and, where it has the method, asked
\* is_allowed_domain(url)
F_CrawlerConfig ==
    /\ fn.op = "CrawlerConfig" /\ ~fn.done
    /\ LET c == IF fn.arg.cls = "webcrawler"
                THEN W_CrawlerConfig(fn.arg.start_url, fn.arg.max_depth, fn.arg.rate,
                                     fn.arg.allowed_domains)
                ELSE P_CrawlerConfig(fn.arg.start_url, fn.arg.max_depth, fn.arg.rate)
       IN fn' = [fn EXCEPT !.done = TRUE,
                    !.out = [raised |-> c.raised,
                             allowed_domains |-> c.allowed_domains,
                             allowed |-> /\ ~c.raised
                                         /\ is_allowed_domain(fn.arg.url,
                                                              c.allowed_domains)]]
    /\ UNCHANGED <<crawlVars, gateVars, handlers, gotoLog, pageVars, taskVars, apiVars>>

\* crawl_page: robots_config = await self.fetch_robots_txt(domain), answered
\* with status 200 and this text, then robots_config.is_allowed(url)
F_robots_is_allowed ==
    /\ fn.op = "robots_config.is_allowed" /\ ~fn.done
    /\ LET robots_config == fetch_robots_txt(Response(FALSE, 200, fn.arg.text)).config IN
       fn' = [fn EXCEPT !.done = TRUE,
                 !.out = [config |-> robots_config,
                          allowed |-> is_allowed(robots_config, fn.arg.url)]]
    /\ UNCHANGED <<crawlVars, gateVars, handlers, gotoLog, pageVars, taskVars, apiVars>>

F_chunk_text ==
    /\ fn.op = "chunk_text" /\ ~fn.done
    /\ fn' = [fn EXCEPT !.done = TRUE, !.out = chunk_text(fn.arg.text, fn.arg.max_chars)]
    /\ UNCHANGED <<crawlVars, gateVars, handlers, gotoLog, pageVars, taskVars, apiVars>>

F_download_asset ==
    /\ fn.op = "_download_asset" /\ ~fn.done
    /\ fn' = [fn EXCEPT !.done = TRUE,
                        !.out = P_download_asset(fn.arg.url, fn.arg.head, fn.arg.get,
                                                 fn.arg.max_asset_size)]
    /\ UNCHANGED <<crawlVars, gateVars, handlers, gotoLog, pageVars, taskVars, apiVars>>

NextFn ==
    \/ F_chunk_text
    \/ F_robots_is_allowed
    \/ F_download_asset
    \/ F_CrawlerConfig
    \/ F_fetch_robots_txt
    \/ F_is_allowed
    \/ F_normalize_url
    \/ F_crawl_page_links
    \/ F_classify_content

SpecFn == InitFn /\ [][NextFn]_vars

-----------------------------------------------------------------------------
(* Properties *)

SeqToSet(q) == {q[k] : k \in DOMAIN q}

FetchedUrls == {fetchLog[k].url : k \in DOMAIN fetchLog}

\* C1: in both crawlers the visited set never grows beyond max_pages, and a
\* page fetch is only issued while fewer than max_pages other URLs are visited.
C1_VisitedWithinBudget ==
    /\ Cardinality(visited_urls) <= config.max_pages
    /\ \A k \in DOMAIN fetchLog : fetchLog[k].others < config.max_pages

\* C1 witness: the Crawler has used up its budget while an unvisited link of
\* the page it is looping over is still pending.
C1_Witness ==
    /\ impl = "Crawler" /\ stack # <<>>
    /\ Top.phase = "loop" /\ Top.i <= Len(Top.links)
    /\ Top.links[Top.i] \notin visited_urls
    /\ config.max_pages >= 2
    /\ Cardinality(visited_urls) = config.max_pages
    /\ Len(fetchLog) = config.max_pages

\* C2: no fetch is ever issued at a depth above max_depth; with max_depth = 1
\* the run fetches the start page and at most one page per distinct link of it.
C2_DepthBounded ==
    /\ \A k \in DOMAIN fetchLog : fetchLog[k].depth <= config.max_depth
    /\ config.max_depth = 1 =>
         Len(fetchLog) <= 1 + (IF results = <<>> THEN 0
                               ELSE Cardinality(SeqToSet(results[1].links)))

\* C2 witness: max_depth = 1, the start page and three depth-1 pages were
\* fetched, every depth-1 page carried links, and the run is over.
C2_Witness ==
    /\ config.max_depth = 1 /\ pc = "done"
    /\ Len(fetchLog) = 4 /\ Len(results) = 4
    /\ Cardinality(FetchedUrls) = 4
    /\ \A k \in 2..4 : results[k].links # <<>> /\ fetchLog[k].depth = 1

\* C3: no URL is fetched more than once in a run.
C3_NoUrlFetchedTwice ==
    \A i, j \in DOMAIN fetchLog : fetchLog[i].url = fetchLog[j].url => i = j

\* C4: a frontier entry is created at most once per URL, so the queue never
\* holds a URL twice and no URL is enqueued again after it was dequeued.
C4_NoUrlEnqueuedTwice ==
    \A i, j \in DOMAIN enqLog : enqLog[i].url = enqLog[j].url => i = j

RECURSIVE IsSubsequence(_, _, _, _)
IsSubsequence(a, i, b, j) ==
    IF i > Len(a) THEN TRUE
    ELSE IF j > Len(b) THEN FALSE
    ELSE IF a[i].url = b[j].url /\ a[i].depth = b[j].depth
         THEN IsSubsequence(a, i + 1, b, j + 1)
         ELSE IsSubsequence(a, i, b, j + 1)

SiteDisallows(url) ==
    LET resp == site_robots[url.netloc] IN
    /\ ~resp.exception /\ resp.status = 200
    /\ \E k \in DOMAIN resp.text :
         resp.text[k][1] = "Disallow" /\ startswith(url.path, resp.text[k][2])

\* C8: with robots compliance enabled, no URL that the robots.txt of its
\* domain disallows is ever fetched.
C8_NoDisallowedFetch ==
    config.respect_robots => \A u \in FetchedUrls : ~SiteDisallows(u)

SiteUrls == {StartUrl, PrivatePage, PublicPage, PublicPageQ, SubPage}

RobotsFailed(d) == site_robots[d].exception \/ site_robots[d].status # 200

\* C9: a robots.txt request that fails or answers non-200 leaves a policy that
\* allows every path and has no crawl-delay; it never aborts the crawl and
\* never makes a URL be skipped.
C9_RobotsFailOpen ==
    /\ pc # "aborted"
    /\ \A d \in Domains : RobotsFailed(d) =>
         /\ robotsRequests[d] > 0 => d \in DOMAIN robots_cache
         /\ d \in DOMAIN robots_cache =>
              /\ robots_cache[d].crawl_delay = <<>>
              /\ \A u \in SiteUrls : is_allowed(robots_cache[d], u)
         /\ \A u \in skipped : u.netloc # d

\* C9 witness: the robots.txt request of localhost raised, and the crawl went
\* on to fetch the private page and one more page.
C9_Witness ==
    /\ impl = "Crawler" /\ config.respect_robots
    /\ site_robots[Localhost].exception
    /\ robotsRequests[Localhost] = 1
    /\ PrivatePage \in FetchedUrls
    /\ Len(results) >= 3

\* C10: robots.txt is requested at most once per domain, every answer is
\* cached, and a cached policy never changes.
C10_RobotsOncePerDomain ==
    /\ [](\A d \in Domains :
            /\ robotsRequests[d] <= 1
            /\ robotsRequests[d] = 1 <=> d \in DOMAIN robots_cache)
    /\ [][\A d \in DOMAIN robots_cache :
            d \in DOMAIN robots_cache' /\ robots_cache'[d] = robots_cache[d]]_vars

\* C10 witness: both domains were asked once, localhost's request failed, and
\* three localhost pages passed the robots check on that one request.
C10_Witness ==
    /\ impl = "Crawler" /\ config.respect_robots
    /\ RobotsFailed(Localhost)
    /\ \A d \in Domains : robotsRequests[d] = 1
    /\ Cardinality({u \in FetchedUrls : u.netloc = Localhost}) >= 3

\* the interval the rate-limit contract asks for
RequiredGap ==
    LET a == gate.interval
        b == gate.request_period
        c == IF gate.crawl_delay = <<>> THEN 0 ELSE gate.crawl_delay[1]
    IN IF a >= b /\ a >= c THEN a ELSE IF b >= c THEN b ELSE c

\* C6: successive page requests of a Crawler run are at least
\* max(1/requests_per_second, crawl-delay, delay_between_requests) apart.
C6_RequestGap ==
    impl = "Crawler" =>
        \A k \in DOMAIN exits : k > 1 => exits[k] - exits[k - 1] >= RequiredGap

\* C7: N passes through the gate take at least (N - 1) intervals.
C7_PassesTakeTime ==
    exits # <<>> => exits[Len(exits)] - firstEntry >= (Len(exits) - 1) * gate.interval

-----------------------------------------------------------------------------
(* Properties of the robots.txt policy *)

\* the lines of `block` occur in `text`, one after the other
ContainsBlock(text, block) ==
    \E k \in 0..(Len(text) - Len(block)) : SubSeq(text, k + 1, k + Len(block)) = block

\* the name by which a robots.txt addresses a crawler with this user agent
ProductToken(ua) ==
    IF ua = user_agent THEN "CloudCurio Crawler" ELSE ua

NamesCrawler(block, ua) ==
    LowerTok(block[1][2][1]) \in {LowerTok(ProductToken(ua)), LowerTok(ua)}

RuleValues(block, field) ==
    LET IsField(line) == LowerTok(line[1]) = field
        lines == SelectSeq(block, IsField)
    IN [k \in DOMAIN lines |-> lower(lines[k][2])]

\* the policy one agent block states, read on its own
BlockPolicy(block) ==
    LET delays == RuleValues(block, "crawl-delay") IN
    RobotsConfig(RuleValues(block, "allow"), RuleValues(block, "disallow"),
                 IF delays = <<>> THEN <<>> ELSE ParseFloat(delays[Len(delays)][1]))

\* C11: when a robots.txt has a `*` block and a block naming the crawler's user
\* agent, the parsed policy is that of the naming block alone; for
\* SAMPLE_ROBOTS_TXT the parsed crawl_delay is 0.5 seconds (2 quarter seconds).
C11_MostSpecificBlockOnly ==
    (fn.op = "fetch_robots_txt" /\ fn.done) =>
        /\ \A b \in RobotsBlocks :
              ( /\ ContainsBlock(fn.arg.text, StarBlock)
                /\ b # StarBlock
                /\ ContainsBlock(fn.arg.text, b)
                /\ NamesCrawler(b, fn.arg.user_agent) )
              => fn.out = BlockPolicy(b)
        /\ (fn.arg.text = SAMPLE_ROBOTS_TXT /\ fn.arg.user_agent = user_agent)
              => fn.out.crawl_delay = <<2>>

\* some prefix of the list is a prefix of the path
SomePrefixMatches(rules, path) == \E r \in SeqToSet(rules) : startswith(path, r)

\* C12 (as stated): the three-way rule of is_allowed, and among the matching
\* rules the longest prefix decides: a matching allow prefix longer than every
\* matching disallow prefix lets the path through.
C12_LongestPrefixWins ==
    (fn.op = "is_allowed" /\ fn.done) =>
        LET path == fn.arg.url.path
            A == MatchLengths(fn.arg.rc.allowed_paths, path)
            D == MatchLengths(fn.arg.rc.disallowed_paths, path)
        IN /\ (D = {} /\ fn.arg.rc.allowed_paths # <<>>) => (fn.out <=> A # {})
           /\ (D = {} /\ fn.arg.rc.allowed_paths = <<>>) => fn.out
           /\ (A # {} /\ D # {} /\ Longest(A) > Longest(D)) => fn.out
           /\ (D # {} /\ (A = {} \/ Longest(D) > Longest(A))) => ~fn.out

\* C12 (amended): is_allowed is false if any disallow prefix matches the path,
\* whatever the allow-list holds and however long the prefixes are; otherwise,
\* with a non-empty allow-list it is true exactly when some allow prefix
\* matches; otherwise it is true.  Neither length nor order of the rules counts.
C12_DisallowAlwaysWins ==
    (fn.op = "is_allowed" /\ fn.done) =>
        LET path == fn.arg.url.path
            rc == fn.arg.rc
        IN IF SomePrefixMatches(rc.disallowed_paths, path) THEN ~fn.out
           ELSE IF rc.allowed_paths # <<>>
                THEN fn.out <=> SomePrefixMatches(rc.allowed_paths, path)
                ELSE fn.out

\* a path under a disallowed prefix and under a longer allowed prefix is refused
C12_Witness ==
    /\ fn.op = "is_allowed" /\ fn.done /\ ~fn.out
    /\ fn.arg.rc.disallowed_paths = << <<"/", "private", "/">> >>
    /\ fn.arg.rc.allowed_paths = << <<"/", "private", "/", "public", "/">> >>
    /\ fn.arg.url.path = <<"/", "private", "/", "public", "/", "page">>

-----------------------------------------------------------------------------
(* Properties of page failures *)

LastFetched == fetchLog[Len(fetchLog)]

ResultUrls == { results[k].url : k \in DOMAIN results }

C14_BadStatusIsTerminal ==
    [][ (fetchLog' # fetchLog /\ last_fetch'.status \notin {0, 200}) =>
            /\ results' = results
            /\ enqLog' = enqLog
            /\ Len(stack') <= Len(stack)
            /\ (stack' # <<>> /\ Len(stack') = Len(stack)) => stack' = stack ]_vars

\* C15: after a response with status 429 the crawl loop starts its next page
\* fetch no sooner than retry_delay * 2 after that response.
C15_CooldownAfter429 ==
    \A i \in DOMAIN gotoLog :
        (gotoLog[i].status = 429 /\ i < Len(gotoLog)) =>
            gotoLog[i + 1].at >= gotoLog[i].at + gate.retry_delay * 2

\* the depth at which a page in results was fetched
ResultDepth(url) ==
    LET k == CHOOSE i \in DOMAIN fetchLog :
                 /\ fetchLog[i].url = url
                 /\ \A j \in DOMAIN fetchLog : fetchLog[j].url = url => j <= i
    IN fetchLog[k].depth

\* the links of a yielded page that the crawler may follow: in the Crawler they
\* are normalised already, in the PlaywrightCrawler they are on the start host
FollowableLinks(r) ==
    IF impl = "Crawler" THEN SeqToSet(r.links)
    ELSE { u \in SeqToSet(r.links) : u.netloc = config.start_url.netloc }

FailureOutcomes == {"exception", "status", "raise"}

\* C16: no failure of a page raises out of crawl or ends the run early: when
\* the run is over and the page budget was not used up, every followable link
\* of every yielded page above the depth limit has been fetched (or dropped by
\* robots.txt); a start URL that cannot be fetched gives a run without results.
C16_PageFailureNeverEndsRun ==
    /\ pc # "aborted"
    /\ (pc = "done" /\ Cardinality(visited_urls) < config.max_pages) =>
          \A k \in DOMAIN results :
              ResultDepth(results[k].url) < config.max_depth =>
                  FollowableLinks(results[k]) \subseteq (FetchedUrls \cup skipped)
    /\ (Len(fetchLog) = 1 /\ last_fetch.outcome \in FailureOutcomes) => results = <<>>
    /\ (pc = "done" /\ results = <<>>) => Len(fetchLog) <= 1

\* a Crawler run is over in which a fetch failed and a later page was yielded
C16_Witness ==
    /\ impl = "Crawler" /\ pc = "done"
    /\ Len(fetchLog) >= 3
    /\ Len(results) < Len(fetchLog)
    /\ last_fetch.outcome = "ok"
    /\ Cardinality(visited_urls) < config.max_pages

-----------------------------------------------------------------------------
(* Properties of links and URL identity *)

\* the host of a netloc: the netloc without its port
HostOf(netloc) ==
    IF netloc # <<>> /\ netloc[Len(netloc)] = ":8080"
    THEN SubSeq(netloc, 1, Len(netloc) - 1)
    ELSE netloc

HostAllowed(netloc, allowed_domains) ==
    \E d \in SeqToSet(allowed_domains) : HostOf(netloc) = HostOf(d)

\* C17: the links kept from a page are exactly those whose host is one of the
\* allowed domains: from http://localhost:8080/ with allowed_domains
\* ["localhost"], the anchors /page1, /page2 and http://external.com give the
\* two localhost links and not the external one.
C17_KeepsExactlyAllowedHosts ==
    (fn.op = "crawl_page" /\ fn.done) =>
        LET OnAllowedHost(href) ==
                HostAllowed(urljoin(fn.arg.base_url, href).netloc, fn.arg.allowed_domains)
            kept == SelectSeq(fn.arg.hrefs, OnAllowedHost)
        IN /\ Len(fn.out) = Len(kept)
           /\ \A k \in DOMAIN fn.out :
                 /\ fn.out[k].netloc = urljoin(fn.arg.base_url, kept[k]).netloc
                 /\ fn.out[k].path = urljoin(fn.arg.base_url, kept[k]).path
           /\ ( /\ fn.arg.base_url = Url(LocalhostPort, <<"/">>, FALSE)
                /\ fn.arg.allowed_domains = <<Localhost>>
                /\ fn.arg.hrefs = <<Page1, Page2, ExternalLink>> )
              => fn.out = << Url(LocalhostPort, <<"/", "page1">>, FALSE),
                             Url(LocalhostPort, <<"/", "page2">>, FALSE) >>

\* C18: normalize_url is idempotent: whenever normalize_url(link, base) returns a
\* URL u, normalize_url(u, base) returns u.
C18_NormalizeIdempotent ==
    (fn.op = "normalize_url" /\ fn.done /\ fn.out.once # <<>>) =>
        fn.out.twice = fn.out.once

\* a relative link with a query string was resolved, stripped and normalised again
C18_Witness ==
    /\ fn.op = "normalize_url" /\ fn.done
    /\ fn.arg.url = Link("", <<>>, <<"page2">>, TRUE)
    /\ fn.arg.base_url = Url(Localhost, <<"/", "private", "/", "page">>, TRUE)
    /\ fn.out.once = <<Url(Localhost, <<"/", "private", "/", "page2">>, FALSE)>>
    /\ fn.out.twice = fn.out.once

\* scheme, host and path of a URL: what normalisation keeps
NormalForm(u) == Link(u.scheme, u.netloc, u.path, FALSE)

\* C19: URLs with the same scheme, host and path are one frontier entity: of
\* the URLs visited or fetched in a run no two different ones share a normal
\* form.
C19_OneEntityPerNormalForm ==
    \A u, v \in FetchedUrls \cup visited_urls :
        NormalForm(u) = NormalForm(v) => u = v

-----------------------------------------------------------------------------
(* Properties of the classification *)

\* C20: the classification is a function of the number n of features found
\* among the three signal families: confidence = min(n/3, 1) (in thirtieths:
\* min(10n, 30)), always within [0, 1]; the type is "documentation" when the
\* confidence is at least 0.7, "guide" when it is at least 0.4 and below 0.7,
\* "unknown" otherwise.
C20_ClassificationByCount ==
    (fn.op = "_classify_content" /\ fn.done) =>
        LET n == Len(fn.out.features)
            c == fn.out.confidence
        IN /\ SeqToSet(fn.out.features) \subseteq
                    {"url_pattern", "metadata_tag", "content_markers"}
           /\ Cardinality(SeqToSet(fn.out.features)) = n
           /\ c * 3 = (IF n <= 3 THEN n ELSE 3) * 30
           /\ c >= 0 /\ c <= 30
           /\ fn.out.type = "documentation" <=> c * 10 >= 7 * 30
           /\ fn.out.type = "guide" <=> (c * 10 >= 4 * 30 /\ c * 10 < 7 * 30)
           /\ fn.out.type = "unknown" <=> c * 10 < 4 * 30
           /\ n = 2 => fn.out.type = "guide"

\* a page with two of the three signals was classified as a guide
C20_Witness ==
    /\ fn.op = "_classify_content" /\ fn.done
    /\ fn.out.features = <<"url_pattern", "content_markers">>
    /\ fn.out.type = "guide"
    /\ fn.out.confidence = 20

-----------------------------------------------------------------------------
(* PlaywrightCrawler: a crawl followed await by await, so that the run can be
   cancelled wherever it is suspended.  proc.stage names the await the run is
   suspended in; "idle" is the synchronous code between two iterations. *)

\* CrawlerConfig.content_types: Field(default=[...])
DefaultContentTypes == <<"documentation", "api", "wiki", "guide", "manual">>

DocsPage == Url(Localhost, <<"/", "docs", "/", "intro">>, FALSE)

\* what _extract_content can return for a loaded page: metadata keys, text and
\* the absolute hrefs of its anchors
Content(metadata, text, links) == [metadata |-> metadata, text |-> text, links |-> links]

\* the anchors a page of the site can carry
PageHrefs == { <<>>, <<DocsPage, ExternalPage>> }

PageContents ==
    { Content(md, text, links) :
        md \in { {}, {<<"Documentation">>} },
        text \in { <<>>, <<"Installation", "steps">> },
        links \in PageHrefs }

\* what the page.evaluate of _process_assets can return: the asset URLs of the page
PageAssets == { <<>>, <<Logo>>, <<Logo, Manual>> }

\* the Content-Length a probe can answer: at the limit, and above it
ProbeSizes == {DefaultMaxAssetSize, DefaultMaxAssetSize + 1}

\* Mutant: the allow-list of content types is not consulted.
P_AcceptAnyType(type, content_types) == TRUE

\* content_type.type not in self.config.content_types, negated
P_TypeWanted(type, content_types) ==
    \E i \in DOMAIN content_types : content_types[i] = type

\* Mutant: the assets of a page are never processed.
P_NeverProcessesAssets(download_assets) == FALSE

\* assets = await self._process_assets() if self.config.download_assets else []
P_ProcessesAssets(download_assets) == download_assets

\* ContentExtraction(...); crawled_at is the number of the fetch
ContentExtraction(p) ==
    [url |-> p.url, links |-> p.content.links, content_type |-> p.type,
     assets |-> p.assets, crawled_at |-> p.n]

\* the locals of a _process_url call that has just been entered
NewPage(url, depth, n) ==
    [stage |-> "rate_limit", url |-> url, depth |-> depth, n |-> n, attempt |-> 0,
     content |-> Content({}, <<>>, <<>>), type |-> "", candidates |-> <<>>, k |-> 0,
     size |-> 0, assets |-> <<>>, steps |-> {}]

\* an entry of asset_io: the operation, the candidate it is for, and the
\* Content-Length the candidate's probe answered (0 when it raised)
IO(op, p, size) ==
    [op |-> op, url |-> p.candidates[p.k], n |-> p.n, k |-> p.k, size |-> size]

\* _process_url leaves without a result (return None, or the last attempt
\* re-raises and crawl logs it): the while loop goes on
PageEnds(p, outcome) ==
    /\ proc' = NoPage
    /\ pageLog' = Append(pageLog, [p EXCEPT !.stage = outcome])
    /\ UNCHANGED <<visited_urls, results, queue, enqLog>>

\* visited_urls.add(url); return ContentExtraction(...); results.append(content);
\* queue.extend(...): nothing is awaited between the last asset and the append
PageDelivered(p) ==
    /\ proc' = NoPage
    /\ pageLog' = Append(pageLog, [p EXCEPT !.stage = "result"])
    /\ visited_urls' = visited_urls \cup {p.url}
    /\ results' = Append(results, ContentExtraction(p))
    /\ LET new_urls == IF p.depth < config.max_depth
                       THEN P_filter_urls(p.content.links, visited_urls', <<>>)
                       ELSE <<>>
       IN /\ queue' = queue \o QueueEntries(new_urls, p.depth + 1)
          /\ enqLog' = enqLog \o QueueEntries(new_urls, p.depth + 1)

\* the run stays suspended inside _process_url
PageGoesOn(p) ==
    /\ proc' = p
    /\ UNCHANGED <<visited_urls, results, queue, enqLog, pageLog>>

\* the `for url in asset_urls` loop moves to the next candidate, or
\* _process_assets returns and the page is delivered
NextAsset(p) ==
    IF p.k < Len(p.candidates)
    THEN PageGoesOn([p EXCEPT !.stage = "head", !.k = @ + 1, !.size = 0])
    ELSE PageDelivered([p EXCEPT !.steps = @ \cup {"assets"}])

InitPage ==
    /\ impl \in {"Crawler", "PlaywrightCrawler"}
    /\ \E d \in 1..MaxDepthBound, a \in 1..MaxRetryBound, da \in BOOLEAN,
          ct \in {DefaultContentTypes, <<"documentation">>} :
         \* the Crawler has no retries, content types or assets; it runs with
         \* respect_robots_txt switched off
         /\ impl = "Crawler" => (a = 1 /\ ~da /\ ct = DefaultContentTypes)
         /\ config = [start_url |-> StartUrl,
                      max_depth |-> d,
                      max_pages |-> MaxPagesBound,
                      respect_robots |-> impl = "PlaywrightCrawler",
                      retry_attempts |-> a,
                      retry_delay |-> DefaultRetryDelay,
                      allowed_domains |-> set_default_domain(StartUrl),
                      content_types |-> ct,
                      download_assets |-> da,
                      max_asset_size |-> DefaultMaxAssetSize]
    /\ site_robots = [d \in Domains |-> Response(FALSE, 200, RobotsDisallowPrivate)]
    /\ visited_urls = {} /\ robots_cache = <<>>
    /\ stack = IF impl = "Crawler" THEN <<Frame(StartUrl, 0, "call", <<>>, 0)>> ELSE <<>>
    /\ queue = IF impl = "PlaywrightCrawler"
               THEN <<[url |-> StartUrl, depth |-> 0]>> ELSE <<>>
    /\ results = <<>> /\ pc = "running" /\ last_attempts = 0
    /\ last_fetch = NoFetch
    /\ fetchLog = <<>> /\ enqLog = queue
    /\ robotsRequests = [d \in Domains |-> 0] /\ skipped = {}
    /\ GateIdle
    /\ handlers = {} /\ gotoLog = <<>>
    /\ fn = [op |-> "", arg |-> <<>>, done |-> FALSE, out |-> <<>>]
    /\ PageIdle /\ ApiIdle /\ TasksIdle

pageFrame == <<impl, config, site_robots, robots_cache, last_attempts, last_fetch,
               robotsRequests, skipped, gateVars, handlers, gotoLog, fn, taskVars, apiVars>>

\* an iteration passes the tests of the while body and awaits
\* _respect_rate_limit; on this site no entry that is too deep or already
\* visited ever reaches the head of the queue (Spec follows those iterations)
Pg_Begin ==
    /\ impl = "PlaywrightCrawler" /\ pc = "running" /\ proc.stage = "idle"
    /\ P_LoopCondition(queue, Cardinality(visited_urls), config.max_pages)
    /\ LET e == P_Pop(queue).entry IN
       /\ ~(e.depth > config.max_depth)
       /\ e.url \notin visited_urls
       /\ P_is_allowed_by_robots(e.url, config.respect_robots)
       /\ queue' = P_Pop(queue).rest
       /\ fetchLog' = Append(fetchLog, FetchEntry(e.url, e.depth))
       /\ proc' = NewPage(e.url, e.depth, Len(fetchLog) + 1)
    /\ UNCHANGED <<visited_urls, results, pc, enqLog, asset_store, asset_io, pageLog,
                   stack, pageFrame>>

\* the gate lets the run through: page.goto is awaited
Pg_RateLimit ==
    /\ impl = "PlaywrightCrawler" /\ pc = "running" /\ proc.stage = "rate_limit"
    /\ proc' = [proc EXCEPT !.stage = "goto"]
    /\ UNCHANGED <<visited_urls, results, queue, pc, fetchLog, enqLog, asset_store,
                   asset_io, pageLog, stack, pageFrame>>

\* page.goto and wait_for_load_state end: the page is loaded, or one of them
\* raised and the except branch sleeps or, on the last attempt, re-raises
Pg_Goto ==
    /\ impl = "PlaywrightCrawler" /\ pc = "running" /\ proc.stage = "goto"
    /\ \E raised \in BOOLEAN :
         IF ~raised
         THEN PageGoesOn([proc EXCEPT !.stage = "extract", !.steps = @ \cup {"fetch"}])
         ELSE IF proc.attempt = config.retry_attempts - 1
              THEN PageEnds(proc, "raised")
              ELSE PageGoesOn([proc EXCEPT !.stage = "sleep"])
    /\ UNCHANGED <<pc, fetchLog, asset_store, asset_io, stack, pageFrame>>

\* asyncio.sleep(retry_delay * (attempt + 1)) is over: the next attempt
Pg_Wake ==
    /\ impl = "PlaywrightCrawler" /\ pc = "running" /\ proc.stage = "sleep"
    /\ proc' = [proc EXCEPT !.stage = "goto", !.attempt = @ + 1]
    /\ UNCHANGED <<visited_urls, results, queue, pc, fetchLog, enqLog, asset_store,
                   asset_io, pageLog, stack, pageFrame>>

\* _extract_content returns; _classify_content awaits nothing, so that the test
\* against content_types follows at once
Pg_Extract ==
    /\ impl = "PlaywrightCrawler" /\ pc = "running" /\ proc.stage = "extract"
    /\ \/ PageEnds(proc, "no content")
       \/ \E content \in PageContents :
            LET type == P_classify_content(proc.url, content).type
                p == [proc EXCEPT !.content = content, !.type = type,
                                  !.steps = @ \cup {"extraction"}]
            IN IF ~P_TypeWanted(type, config.content_types)
               THEN PageEnds(p, "rejected")
               ELSE LET q == [p EXCEPT !.steps = @ \cup {"classification"}] IN
                    IF P_ProcessesAssets(config.download_assets)
                    THEN PageGoesOn([q EXCEPT !.stage = "asset_urls"])
                    ELSE PageDelivered(q)
    /\ UNCHANGED <<pc, fetchLog, asset_store, asset_io, stack, pageFrame>>

\* the page.evaluate of _process_assets returns the asset URLs, or raises and
\* _process_assets returns []
Pg_AssetUrls ==
    /\ impl = "PlaywrightCrawler" /\ pc = "running" /\ proc.stage = "asset_urls"
    /\ \/ PageDelivered([proc EXCEPT !.steps = @ \cup {"assets"}])
       \/ \E asset_urls \in PageAssets :
            NextAsset([proc EXCEPT !.candidates = asset_urls])
    /\ UNCHANGED <<pc, fetchLog, asset_store, asset_io, stack, pageFrame>>

\* _download_asset: session.head(url) answers or raises
Pg_Head ==
    /\ impl = "PlaywrightCrawler" /\ pc = "running" /\ proc.stage = "head"
    /\ LET url == proc.candidates[proc.k] IN
       \/ /\ asset_io' = Append(asset_io, IO("HEAD", proc, 0))
          /\ NextAsset([proc EXCEPT !.assets = Append(@, P_AssetFailed(url, ""))])
       \/ \E size \in ProbeSizes :
            /\ asset_io' = Append(asset_io, IO("HEAD", proc, size))
            /\ IF P_TooLarge(size, config.max_asset_size)
               THEN NextAsset([proc EXCEPT !.size = size,
                                   !.assets = Append(@, P_AssetTooLarge(url, size))])
               ELSE PageGoesOn([proc EXCEPT !.stage = "get", !.size = size])
    /\ UNCHANGED <<pc, fetchLog, asset_store, stack, pageFrame>>

\* _download_asset: session.get(url) answers or raises; an answer other than 200
\* leaves every `with` block and the function ends without a return statement
Pg_Get ==
    /\ impl = "PlaywrightCrawler" /\ pc = "running" /\ proc.stage = "get"
    /\ asset_io' = Append(asset_io, IO("GET", proc, proc.size))
    /\ LET url == proc.candidates[proc.k] IN
       \/ NextAsset([proc EXCEPT !.assets = Append(@, P_AssetFailed(url, "Cannot connect"))])
       \/ \E status \in Statuses :
            IF status = 200
            THEN PageGoesOn([proc EXCEPT !.stage = "write"])
            ELSE NextAsset(proc)
    /\ UNCHANGED <<pc, fetchLog, asset_store, stack, pageFrame>>

\* _download_asset: the body is read and written to file_path; when that raises
\* the file may have been created already
Pg_Write ==
    /\ impl = "PlaywrightCrawler" /\ pc = "running" /\ proc.stage = "write"
    /\ LET url == proc.candidates[proc.k] IN
       \/ /\ asset_store' = asset_store \cup {FilePath(url)}
          /\ asset_io' = Append(asset_io, IO("WRITE", proc, proc.size))
          /\ NextAsset([proc EXCEPT !.assets = Append(@, P_AssetDownloaded(url, proc.size))])
       \/ /\ \/ /\ asset_store' = asset_store \cup {FilePath(url)}
                /\ asset_io' = Append(asset_io, IO("WRITE", proc, proc.size))
             \/ UNCHANGED <<asset_store, asset_io>>
          /\ NextAsset([proc EXCEPT !.assets = Append(@, P_AssetFailed(url, "No space left"))])
    /\ UNCHANGED <<pc, fetchLog, stack, pageFrame>>

\* Crawler.crawl_page has passed its tests and awaits _wait_for_rate_limit
Wg_Begin ==
    /\ impl = "Crawler" /\ pc = "running" /\ stack # <<>>
    /\ Top.phase = "fetch" /\ proc.stage = "idle"
    /\ fetchLog' = Append(fetchLog, FetchEntry(Top.url, Top.depth))
    /\ proc' = NewPage(Top.url, Top.depth, Len(fetchLog) + 1)
    /\ UNCHANGED <<visited_urls, results, queue, pc, enqLog, asset_store, asset_io,
                   pageLog, stack, pageFrame>>

\* the gate lets the call through: session.get(url) is awaited
Wg_RateLimit ==
    /\ impl = "Crawler" /\ pc = "running" /\ proc.stage = "rate_limit"
    /\ proc' = [proc EXCEPT !.stage = "get"]
    /\ UNCHANGED <<visited_urls, results, queue, pc, fetchLog, enqLog, asset_store,
                   asset_io, pageLog, stack, pageFrame>>

\* session.get answers or raises: a status other than 200 returns, an exception
\* is logged by the except clause, and either way the call ends without a yield
Wg_Get ==
    /\ impl = "Crawler" /\ pc = "running" /\ proc.stage = "get"
    /\ \E outcome \in {"exception", "status", "ok"} :
         IF W_Status(outcome) = 200
         THEN /\ PageGoesOn([proc EXCEPT !.stage = "text", !.steps = @ \cup {"fetch"}])
              /\ UNCHANGED stack
         ELSE /\ PageEnds(proc, IF outcome = "status" THEN "status" ELSE "raised")
              /\ stack' = Pop
    /\ UNCHANGED <<pc, fetchLog, asset_store, asset_io, pageFrame>>

\* response.text() returns or raises; the links are extracted and the page is
\* yielded: yield url, content, links
Wg_Text ==
    /\ impl = "Crawler" /\ pc = "running" /\ proc.stage = "text"
    /\ \/ /\ PageEnds(proc, "raised")
          /\ stack' = Pop
       \/ \E hrefs \in PageHrefs :
            LET links == ExtractLinks(hrefs, proc.url, config.allowed_domains)
                p == [proc EXCEPT !.content = Content({}, <<>>, links),
                                  !.steps = @ \cup {"extraction"}]
            IN /\ proc' = NoPage
               /\ pageLog' = Append(pageLog, [p EXCEPT !.stage = "result"])
               /\ results' = Append(results, [url |-> p.url, links |-> links])
               /\ stack' = SetTop([Top EXCEPT !.phase = "loop", !.links = links, !.i = 1])
               /\ UNCHANGED <<visited_urls, queue, enqLog>>
    /\ UNCHANGED <<pc, fetchLog, asset_store, asset_io, pageFrame>>

\* the task running crawl is cancelled while it is suspended: CancelledError is
\* no Exception, so that no except clause catches it and crawl is left
Pg_Cancel ==
    /\ pc = "running" /\ proc.stage # "idle"
    /\ pc' = "cancelled"
    /\ PageEnds(proc, "cancelled")
    /\ UNCHANGED <<fetchLog, asset_store, asset_io, stack, pageFrame>>

\* the while condition fails: return results
Pg_Return ==
    /\ proc.stage = "idle"
    /\ P_Return

NextPage ==
    \/ W_Call
    \/ W_Loop
    \/ W_Close
    \/ Wg_Begin
    \/ Wg_RateLimit
    \/ Wg_Get
    \/ Wg_Text
    \/ Pg_Begin
    \/ Pg_RateLimit
    \/ Pg_Goto
    \/ Pg_Wake
    \/ Pg_Extract
    \/ Pg_AssetUrls
    \/ Pg_Head
    \/ Pg_Get
    \/ Pg_Write
    \/ Pg_Cancel
    \/ Pg_Return

SpecPage == InitPage /\ [][NextPage]_vars

-----------------------------------------------------------------------------
(* Properties of page processing (SpecPage) *)

\* the processing of page number n has ended and was classified as `type`
Classified(e) == e.type # ""

ResultsOf(n) == { i \in DOMAIN results : results[i].crawled_at = n }

AssetIoOf(n) == { j \in DOMAIN asset_io : asset_io[j].n = n }

\* C21: a page whose classification type is not in config.content_types is
\* discarded: the run's results hold no entry for that processing of the page,
\* and no asset request or asset file write was made for it.
C21_UnwantedPagesDiscarded ==
    \A i \in DOMAIN pageLog :
        (Classified(pageLog[i]) /\ pageLog[i].type \notin SeqToSet(config.content_types))
            => /\ pageLog[i].stage = "rejected"
               /\ ResultsOf(pageLog[i].n) = {}
               /\ AssetIoOf(pageLog[i].n) = {}

\* a page is rejected in a run that has already delivered a page and requested
\* assets for it
C21_Witness ==
    /\ config.download_assets
    /\ results # <<>> /\ asset_io # <<>>
    /\ \E i \in DOMAIN pageLog :
         /\ pageLog[i].stage = "rejected"
         /\ pageLog[i].type = "unknown"
         /\ pageLog[i].n > 1

\* the links of an ended page that are on the start host and not visited
UnvisitedInDomain(e) ==
    { u \in SeqToSet(e.content.links) :
        u.netloc = config.start_url.netloc /\ u \notin visited_urls }

Enqueued(u, depth) == \E j \in DOMAIN enqLog : enqLog[j] = [url |-> u, depth |-> depth]

\* C22: in the PlaywrightCrawler the links of a page that was fetched and
\* extracted are followed whenever they are on the start host, unvisited and
\* within the depth limit, whether the page's classification was accepted or
\* rejected: each such link has been put on the queue one level below the page.
C22_LinksFollowedWhateverTheClass ==
    \A i \in DOMAIN pageLog :
        (/\ impl = "PlaywrightCrawler"
         /\ pageLog[i].stage \in {"result", "rejected"}
         /\ pageLog[i].depth < config.max_depth)
            => \A u \in UnvisitedInDomain(pageLog[i]) : Enqueued(u, pageLog[i].depth + 1)

\* the Asset records page number n has collected
AssetsOf(n) ==
    IF proc.stage # "idle" /\ proc.n = n THEN proc.assets ELSE pageLog[n].assets

\* every Asset record _download_asset has returned so far
AllAssets ==
    UNION { SeqToSet(AssetsOf(n)) : n \in 1..Len(fetchLog) }

\* C23: an asset whose probe answers a Content-Length above max_asset_size
\* yields an Asset with downloaded = false and a non-empty error; no GET is
\* issued for it and nothing is written to the asset directory for it.
C23_TooLargeIsNotDownloaded ==
    \A j \in DOMAIN asset_io :
        (asset_io[j].op = "HEAD" /\ asset_io[j].size > config.max_asset_size)
            => /\ \E a \in SeqToSet(AssetsOf(asset_io[j].n)) :
                    /\ a.url = asset_io[j].url /\ a.size = asset_io[j].size
                    /\ ~a.downloaded
                    /\ a.error \notin {<<>>, <<"">>}
               /\ \A a \in SeqToSet(AssetsOf(asset_io[j].n)) :
                    a.size = asset_io[j].size => ~a.downloaded /\ a.local_path = <<>>
               /\ \A i \in DOMAIN asset_io :
                    (asset_io[i].n = asset_io[j].n /\ asset_io[i].k = asset_io[j].k)
                        => asset_io[i].op = "HEAD"

\* a probe has answered a size above the limit in a run that has stored another
\* asset of the same page
C23_Witness ==
    \E j, i \in DOMAIN asset_io :
        /\ asset_io[j].op = "HEAD" /\ asset_io[j].size > config.max_asset_size
        /\ asset_io[i].op = "WRITE" /\ asset_io[i].n = asset_io[j].n
        /\ FilePath(asset_io[i].url) \in asset_store

\* C24: asset processing never raises to _process_url and never makes the page
\* fail: a page whose classification was accepted is delivered unless the run
\* is cancelled, and every asset candidate of a delivered page has exactly one
\* Asset record, which is downloaded or carries an error, whatever the probe
\* and the download answered.
C24_OneRecordPerCandidate ==
    \A i \in DOMAIN pageLog :
        /\ "classification" \in pageLog[i].steps
              => pageLog[i].stage \in {"result", "cancelled"}
        /\ pageLog[i].stage = "result"
              => /\ Len(pageLog[i].assets) = Len(pageLog[i].candidates)
                 /\ \A k \in DOMAIN pageLog[i].assets :
                      /\ pageLog[i].assets[k].url = pageLog[i].candidates[k]
                      /\ \/ pageLog[i].assets[k].downloaded
                         \/ pageLog[i].assets[k].error # <<>>

\* C25: in every Asset record that _download_asset returns, local_path is
\* present exactly when downloaded is true, and an error is present only when
\* downloaded is false.
C25_AssetRecordShape ==
    \A a \in AllAssets :
        /\ (a.local_path # <<>>) <=> a.downloaded
        /\ (a.error # <<>>) => ~a.downloaded

\* the run has returned a record of each kind: stored, too large, failed
C25_Witness ==
    \E a, b, c \in AllAssets :
        /\ a.downloaded /\ a.local_path = <<FilePath(a.url)>>
        /\ b.error = <<"File too large">>
        /\ c.error = <<"Cannot connect">>

-----------------------------------------------------------------------------
(* Properties of the configuration classes (SpecFn) *)

\* C26: constructing a configuration with a start URL that is not absolute, with
\* max_depth < 1 or with a request rate that is not positive raises a validation
\* error, in the webcrawler CrawlerConfig and in the mcp_server CrawlerConfig.
C26_ConfigErrorsFailFast ==
    (fn.op = "CrawlerConfig" /\ fn.done) =>
        ((\/ fn.arg.start_url.scheme = "" \/ fn.arg.start_url.netloc = <<>>
          \/ fn.arg.max_depth < 1
          \/ fn.arg.rate <= 0)
            => fn.out.raised)

\* C27: when allowed_domains is not supplied or empty, the webcrawler
\* CrawlerConfig sets it to the one domain of start_url, and then every URL on
\* the host of the start URL passes is_allowed_domain.
C27_DefaultDomainAdmitsStartHost ==
    (fn.op = "CrawlerConfig" /\ fn.done /\ fn.arg.cls = "webcrawler"
       /\ ~fn.out.raised /\ fn.arg.allowed_domains = <<>>) =>
        /\ fn.out.allowed_domains = <<HostOf(fn.arg.start_url.netloc)>>
        /\ HostOf(fn.arg.url.netloc) = HostOf(fn.arg.start_url.netloc) => fn.out.allowed

-----------------------------------------------------------------------------
(* Several crawler objects whose runs are interleaved: every attribute of an
   object is a reference into the heap, so that it shows which objects a run
   reads and writes *)

Crawlers == {"c1", "c2"}

\* Mutant: the attribute is one object of the class, shared by its instances.
ClassAttribute(i, attr) == <<"class", attr>>

\* __init__: self.visited_urls = set(), self.robots_cache = {},
\* self.last_request_time = 0 are new objects of this instance
NewObject(i, attr) == <<i, attr>>

Attributes == {"visited_urls", "robots_cache", "last_request_time"}

InitialValue(attr) ==
    CASE attr = "visited_urls" -> {}
      [] attr = "robots_cache" -> <<>>
      [] attr = "last_request_time" -> 0

Cell(value, writers) == [value |-> value, writers |-> writers]

\* the objects that the constructors of the crawlers `who` create
NewHeap(who) ==
    [id \in { NewObject(i, attr) : i \in who, attr \in Attributes } |->
        Cell(InitialValue(id[2]), {})]

\* crawler i assigns to, or updates in place, the object behind self.<attr>
Write(h, i, attr, value) ==
    [h EXCEPT ![NewObject(i, attr)] = Cell(value, @.writers \cup {i})]

Read(h, i, attr) == h[NewObject(i, attr)].value

\* the site every crawler sees: the anchors of each page; /docs/intro cannot be
\* fetched
SiteHrefs(url) ==
    CASE url = StartUrl -> <<PublicPage, PrivatePage>>
      [] url = PublicPage -> <<DocsPage, StartUrl>>
      [] url = PrivatePage -> <<DocsPage>>
      [] OTHER -> <<>>

SiteAnswers(url) == url # DocsPage

\* each crawler is given a start URL of its own
StartOf(i) == IF i = "c1" THEN StartUrl ELSE PublicPage

\* a crawler object after __init__, about to run crawl(); todo holds the start
\* entry (the Crawler: the crawl_page calls still to be made, innermost first)
NewCrawler(cls, start_url, max_depth, max_pages) ==
    [impl |-> cls,
     config |-> [start_url |-> start_url, max_depth |-> max_depth,
                 max_pages |-> max_pages,
                 allowed_domains |-> set_default_domain(start_url)],
     todo |-> <<[url |-> start_url, depth |-> 0]>>,
     results |-> <<>>,
     pc |-> "running"]

Step(o, h) == [o |-> o, h |-> h]

\* one iteration of the while loop of PlaywrightCrawler.crawl by crawler i
P_crawl_step(i, o, h, now) ==
    LET visited == Read(h, i, "visited_urls") IN
    IF ~P_LoopCondition(o.todo, Cardinality(visited), o.config.max_pages)
    THEN Step([o EXCEPT !.pc = "done"], h)
    ELSE LET e == P_Pop(o.todo).entry
             rest == P_Pop(o.todo).rest
         IN
         IF e.depth > o.config.max_depth \/ e.url \in visited
         THEN Step([o EXCEPT !.todo = rest], h)
         ELSE LET gated == Write(h, i, "last_request_time", now) IN
              IF ~SiteAnswers(e.url)
              THEN Step([o EXCEPT !.todo = rest], gated)
              ELSE LET seen == visited \cup {e.url}
                       new_urls == IF e.depth < o.config.max_depth
                                   THEN P_filter_urls(SiteHrefs(e.url), seen, <<>>)
                                   ELSE <<>>
                   IN Step([o EXCEPT !.todo = rest \o QueueEntries(new_urls, e.depth + 1),
                                     !.results = Append(@, [url |-> e.url,
                                                            links |-> SiteHrefs(e.url)])],
                           Write(gated, i, "visited_urls", seen))

\* one crawl_page call of the Crawler i, up to the point where it calls
\* crawl_page for its first link; the calls for the links wait in todo, and a
\* link's call is not made once the page budget is used up
W_crawl_step(i, o, h, now) ==
    LET visited == Read(h, i, "visited_urls")
        cache == Read(h, i, "robots_cache")
    IN
    IF o.todo = <<>>
    THEN Step([o EXCEPT !.pc = "done"], h)
    ELSE LET e == Head(o.todo)
             rest == Tail(o.todo)
         IN
         IF \/ e.depth > 0 /\ W_BudgetReached(Cardinality(visited), o.config.max_pages)
            \/ W_TooDeep(e.depth, o.config.max_depth)
            \/ e.url \in visited
         THEN Step([o EXCEPT !.todo = rest], h)
         ELSE LET seen == Write(h, i, "visited_urls", visited \cup {e.url})
                  domain == e.url.netloc
                  cached == domain \in DOMAIN cache
                  robots_config ==
                      IF cached THEN cache[domain]
                      ELSE fetch_robots_txt(Response(FALSE, 200, RobotsDisallowPrivate)).config
                  checked == IF cached THEN seen
                             ELSE Write(seen, i, "robots_cache",
                                        StoreRobots(cache, domain, robots_config))
              IN
              IF ~is_allowed(robots_config, e.url)
              THEN Step([o EXCEPT !.todo = rest], checked)
              ELSE LET gated == Write(checked, i, "last_request_time", now) IN
                   IF ~SiteAnswers(e.url)
                   THEN Step([o EXCEPT !.todo = rest], gated)
                   ELSE LET links == ExtractLinks(SiteHrefs(e.url), e.url,
                                                  o.config.allowed_domains)
                        IN Step([o EXCEPT !.todo = QueueEntries(links, e.depth + 1) \o rest,
                                          !.results = Append(@, [url |-> e.url,
                                                                 links |-> links])],
                                gated)

crawl_step(i, o, h, now) ==
    IF o.impl = "Crawler" THEN W_crawl_step(i, o, h, now) ELSE P_crawl_step(i, o, h, now)

\* the results of the run of crawler i when no other crawler exists
RECURSIVE RunAlone(_, _, _)
RunAlone(i, o, h) ==
    IF o.pc # "running" THEN o.results
    ELSE LET next == crawl_step(i, o, h, 0) IN RunAlone(i, next.o, next.h)

InitTasks ==
    /\ impl = "Crawler"
    /\ CrawlIdle /\ GateIdle
    /\ handlers = {} /\ gotoLog = <<>>
    /\ fn = [op |-> "", arg |-> <<>>, done |-> FALSE, out |-> <<>>]
    /\ PageIdle /\ ApiIdle
    /\ callers = <<>> /\ rate_limiter = <<>> /\ accesses = {}
    /\ \E cls \in [Crawlers -> {"Crawler", "PlaywrightCrawler"}],
          d \in [Crawlers -> 1..MaxDepthBound], p \in [Crawlers -> 1..MaxPagesBound] :
         instances = [i \in Crawlers |-> NewCrawler(cls[i], StartOf(i), d[i], p[i])]
    /\ heap = NewHeap(Crawlers)

\* the event loop resumes the run of one crawler for one iteration
T_CrawlerStep ==
    /\ \E i \in Crawlers :
         /\ instances[i].impl = "Crawler" /\ instances[i].pc = "running"
         /\ LET next == W_crawl_step(i, instances[i], heap, clock + 1) IN
            /\ instances' = [instances EXCEPT ![i] = next.o]
            /\ heap' = next.h
    /\ clock' = clock + 1
    /\ UNCHANGED <<crawlVars, last_request_time, gate, firstEntry, exits,
                   handlers, gotoLog, fn, pageVars, callers, rate_limiter, accesses,
                   apiVars>>

T_PlaywrightStep ==
    /\ \E i \in Crawlers :
         /\ instances[i].impl = "PlaywrightCrawler" /\ instances[i].pc = "running"
         /\ LET next == P_crawl_step(i, instances[i], heap, clock + 1) IN
            /\ instances' = [instances EXCEPT ![i] = next.o]
            /\ heap' = next.h
    /\ clock' = clock + 1
    /\ UNCHANGED <<crawlVars, last_request_time, gate, firstEntry, exits,
                   handlers, gotoLog, fn, pageVars, callers, rate_limiter, accesses,
                   apiVars>>

NextTasks ==
    \/ T_CrawlerStep
    \/ T_PlaywrightStep

SpecTasks == InitTasks /\ [][NextTasks]_vars

-----------------------------------------------------------------------------
(* Properties of interleaved runs (SpecTasks) *)

\* what the run of crawler i yields when it is the only crawler
ResultsAlone(i) ==
    RunAlone(i,
             NewCrawler(instances[i].impl, instances[i].config.start_url,
                        instances[i].config.max_depth, instances[i].config.max_pages),
             NewHeap({i}))

\* C28: runs of distinct crawler objects may be interleaved in any order without
\* affecting each other: the visited set, the robots cache and the rate-limiter
\* timestamp of each object are written by its own run only, no run ends in an
\* exception, and what a run has yielded so far is the beginning, and once it is
\* over the whole, of what it yields when it runs alone.
C28_InstancesIsolated ==
    \A i \in Crawlers :
        /\ \A attr \in Attributes : heap[NewObject(i, attr)].writers \subseteq {i}
        /\ instances[i].pc \in {"running", "done"}
        /\ Len(instances[i].results) <= Len(ResultsAlone(i))
        /\ SubSeq(ResultsAlone(i), 1, Len(instances[i].results)) = instances[i].results
        /\ instances[i].pc = "done" => instances[i].results = ResultsAlone(i)

\* two runs of different classes are over, each has yielded several pages, and
\* some page was visited by both
C28_Witness ==
    /\ instances["c1"].impl # instances["c2"].impl
    /\ \A i \in Crawlers : instances[i].pc = "done" /\ Len(instances[i].results) >= 2
    /\ Read(heap, "c1", "visited_urls") \cap Read(heap, "c2", "visited_urls") # {}
    /\ \A i \in Crawlers : Read(heap, i, "last_request_time") > 1

-----------------------------------------------------------------------------
(* The rate-limit gate of one crawler object called by several tasks: each task
   is a run of crawl on that object, passing the gate and then fetching a page *)

Runs == {"r1", "r2"}

\* asyncio.Semaphore(1)
Semaphore(value) == [value |-> value, holders |-> {}]

\* Mutant: the semaphore never blocks.
never_locked(sem) == FALSE

\* Semaphore.acquire blocks while the value is 0
locked(sem) == sem.value <= 0

\* `async with self.rate_limiter:` entered by task t
acquire(sem, t) == [value |-> sem.value - 1, holders |-> sem.holders \cup {t}]

\* `async with self.rate_limiter:` left by task t
release(sem, t) == [value |-> sem.value + 1, holders |-> sem.holders \ {t}]

\* an access of task t to self.last_request_time, and who held the semaphore then
Access(t, op, sem) == [who |-> t, op |-> op, held |-> t \in sem.holders,
                       others |-> sem.holders \ {t}]

IdleRun == [pc |-> "idle", now |-> 0, wake |-> 0, inflight |-> 0, passes |-> 0]

InitLock ==
    /\ impl \in {"Crawler", "PlaywrightCrawler"}
    /\ CrawlIdle
    /\ clock = 0 /\ last_request_time = 0
    /\ \E i \in 1..MaxInterval :
         gate = [interval |-> i, request_period |-> i, crawl_delay |-> <<>>]
    /\ firstEntry = 0 /\ exits = <<>>
    /\ handlers = {} /\ gotoLog = <<>>
    /\ fn = [op |-> "", arg |-> <<>>, done |-> FALSE, out |-> <<>>]
    /\ PageIdle /\ ApiIdle
    /\ instances = <<>> /\ heap = <<>>
    /\ callers = [t \in Runs |-> IdleRun]
    /\ rate_limiter = Semaphore(1)
    /\ accesses = {}

lockFrame == <<crawlVars, gate, firstEntry, exits, handlers, gotoLog, fn, pageVars,
               instances, heap, apiVars>>

L_Tick ==
    /\ clock + 1 <= MaxClock
    /\ clock' = clock + 1
    /\ UNCHANGED <<last_request_time, callers, rate_limiter, accesses, lockFrame>>

\* a task enters the gate: now and time_since_last are read; it either goes to
\* sleep inside the `async with`, or writes the timestamp and leaves at once to
\* request its page
L_Enter ==
    /\ \E t \in Runs :
         /\ callers[t].pc = "idle" /\ callers[t].passes < MaxPasses
         /\ ~locked(rate_limiter)
         /\ LET sem == acquire(rate_limiter, t)
                now == clock
                time_since_last == now - last_request_time
            IN
            IF time_since_last < gate.interval
            THEN /\ callers' = [callers EXCEPT ![t].pc = "sleep", ![t].now = now,
                                   ![t].wake = now + (gate.interval - time_since_last)]
                 /\ rate_limiter' = sem
                 /\ accesses' = accesses \cup {Access(t, "read", sem)}
                 /\ UNCHANGED last_request_time
            ELSE /\ callers' = [callers EXCEPT ![t].pc = "fetch", ![t].inflight = @ + 1]
                 /\ last_request_time' = now
                 /\ rate_limiter' = release(sem, t)
                 /\ accesses' = accesses \cup {Access(t, "read", sem),
                                               Access(t, "write", sem)}
    /\ UNCHANGED <<clock, lockFrame>>

\* the sleep inside the gate is over: the timestamp is written (the Crawler
\* reads the clock again, the PlaywrightCrawler stores the `now` it read on
\* entry), the semaphore is released and the page is requested
L_Wake ==
    /\ \E t \in Runs :
         /\ callers[t].pc = "sleep" /\ callers[t].wake <= clock
         /\ last_request_time' = IF impl = "Crawler" THEN clock ELSE callers[t].now
         /\ accesses' = accesses \cup {Access(t, "write", rate_limiter)}
         /\ rate_limiter' = release(rate_limiter, t)
         /\ callers' = [callers EXCEPT ![t].pc = "fetch", ![t].now = 0, ![t].wake = 0,
                                       ![t].inflight = @ + 1]
    /\ UNCHANGED <<clock, lockFrame>>

\* the page request of a task is over; its loop comes back to the gate
L_FetchDone ==
    /\ \E t \in Runs :
         /\ callers[t].pc = "fetch"
         /\ callers' = [callers EXCEPT ![t].pc = "idle", ![t].inflight = @ - 1,
                                       ![t].passes = @ + 1]
    /\ UNCHANGED <<clock, last_request_time, rate_limiter, accesses, lockFrame>>

NextLock ==
    \/ L_Tick
    \/ L_Enter
    \/ L_Wake
    \/ L_FetchDone

SpecLock == InitLock /\ [][NextLock]_vars

\* C29: the rate-limit gate is one critical section: at most one caller is
\* inside it at any time, every read and write of last_request_time is made by
\* the caller that is inside, alone, and no run has more than one page fetch in
\* flight.
C29_GateIsOneCriticalSection ==
    /\ Cardinality(rate_limiter.holders) <= 1
    /\ { t \in Runs : callers[t].pc = "sleep" } \subseteq rate_limiter.holders
    /\ \A a \in accesses : a.held /\ a.others = {}
    /\ \A t \in Runs : callers[t].inflight <= 1
    /\ \A t \in Runs : callers[t].pc = "fetch" <=> callers[t].inflight = 1

\* one task sleeps inside the gate while the other one, back from a fetch,
\* waits for the semaphore
C29_Witness ==
    \E t, u \in Runs :
        /\ t # u
        /\ callers[t].pc = "sleep" /\ rate_limiter.holders = {t}
        /\ callers[u].pc = "idle" /\ callers[u].passes > 0 /\ locked(rate_limiter)
        /\ [who |-> u, op |-> "write", held |-> TRUE, others |-> {}] \in accesses

-----------------------------------------------------------------------------
(* Visibility of page results (SpecPage) *)

\* what a page goes through before its result may be seen
StepsBeforeResult ==
    IF impl = "Crawler" THEN {"fetch", "extraction"}
    ELSE {"fetch", "extraction", "classification"}
            \cup (IF config.download_assets THEN {"assets"} ELSE {})

IsResult(e) == e.stage = "result"

\* the pages whose processing ended with a result, in order
Delivered == SelectSeq(pageLog, IsResult)

\* C30: a page result is visible (yielded by the Crawler, appended to results by
\* the PlaywrightCrawler) only after the page's fetch, extraction,
\* classification acceptance and asset processing have all completed: the
\* results are exactly the pages that went through all of these, and a page
\* that failed or was cancelled at an earlier await, or is still in progress,
\* has no result.
C30_NoPartialResult ==
    /\ Len(results) = Len(Delivered)
    /\ \A k \in DOMAIN Delivered :
         /\ results[k].url = Delivered[k].url
         /\ results[k].links = Delivered[k].content.links
         /\ StepsBeforeResult \subseteq Delivered[k].steps
         /\ impl = "PlaywrightCrawler" =>
              /\ Delivered[k].type \in SeqToSet(config.content_types)
              /\ results[k].assets = Delivered[k].assets
              /\ \A c \in DOMAIN Delivered[k].candidates :
                   \E j \in DOMAIN asset_io :
                       /\ asset_io[j].op = "HEAD"
                       /\ asset_io[j].n = Delivered[k].n /\ asset_io[j].k = c
    /\ \A i \in DOMAIN pageLog :
         ~IsResult(pageLog[i]) =>
            /\ pageLog[i].stage \in {"cancelled", "raised", "status", "no content",
                                     "rejected"}
            /\ impl = "PlaywrightCrawler" => ResultsOf(pageLog[i].n) = {}

\* the run was cancelled while the assets of its second page were being
\* processed: the first page is a result, the second is not
C30_Witness ==
    /\ pc = "cancelled"
    /\ Len(results) = 1 /\ Len(pageLog) = 2
    /\ pageLog[2].stage = "cancelled"
    /\ "classification" \in pageLog[2].steps
    /\ pageLog[2].assets # <<>>

-----------------------------------------------------------------------------
(* The depth limit of Crawler.crawl *)

\* the links of a result that lie on the start page's host and are not the page itself
InDomainLinks(r) ==
    { u \in SeqToSet(r.links) : u.netloc = config.start_url.netloc /\ u # r.url }

\* C31: with max_depth = 1, a Crawler.crawl() whose start page carries links to
\* in-domain pages yields exactly one result, the start page, and issues no page
\* fetch for any of the linked pages.
C31_DepthOneCrawlsStartPageOnly ==
    (/\ impl = "Crawler"
     /\ config.max_depth = 1
     /\ results # <<>>
     /\ InDomainLinks(results[1]) # {})
        => /\ results = <<results[1]>>
           /\ results[1].url = config.start_url
           /\ \A i \in DOMAIN fetchLog : fetchLog[i].url = config.start_url

-----------------------------------------------------------------------------
(* Termination of a crawl run *)

\* Every await of a run returns or raises, and the event loop then resumes the
\* coroutine: a step that is possible is eventually taken.
SpecLive == Init /\ [][Next]_vars /\ WF_vars(Next)

\* the run has left crawl(): the work queue is empty or the page budget is
\* reached (PlaywrightCrawler), every crawl_page generator is exhausted (Crawler)
Terminated ==
    /\ pc # "running"
    /\ impl = "PlaywrightCrawler"
          => ~P_LoopCondition(queue, Cardinality(visited_urls), config.max_pages)
    /\ impl = "Crawler" => stack = <<>>

\* C32: every crawl run terminates, whatever links the fetched pages carry
\* (cycles and self-links included) and whichever fetches fail or are rejected:
\* PlaywrightCrawler.crawl leaves its loop with an empty queue or a reached page
\* budget, and the recursion of Crawler.crawl_page ends.
C32_CrawlTerminates == <>Terminated

\* a run has ended after it delivered at least two pages, one of which links
\* to itself, and after a fetch that failed or was rejected
C32_Witness ==
    /\ Terminated
    /\ pc = "done"
    /\ \E i \in DOMAIN results : results[i].url \in SeqToSet(results[i].links)
    /\ Len(fetchLog) > Len(results)
    /\ Len(results) >= 2

-----------------------------------------------------------------------------
(* The page budget and the network work of a run *)

\* C33: in any run of either crawler the number of distinct URLs for which a
\* page fetch has been issued never exceeds max_pages, whether the fetched pages
\* succeeded, failed or were rejected by classification.
C33_FetchedUrlsWithinBudget ==
    Cardinality(FetchedUrls) <= config.max_pages

-----------------------------------------------------------------------------
(* The size limit of stored assets (SpecFn) *)

\* C34: _download_asset never writes a body larger than max_asset_size to
\* storage, whether the probe carried a Content-Length, carried none, or carried
\* one smaller than the body that the download then delivered.
C34_StoredBodyWithinLimit ==
    (fn.op = "_download_asset" /\ fn.done /\ fn.out.written # <<>>)
        => fn.out.written[1] <= fn.arg.max_asset_size

-----------------------------------------------------------------------------
(* Host matching of normalize_url (SpecFn) *)

\* the host is the domain itself, or a subdomain of it: a label sequence that
\* ends with "." and the domain
HostMatches(host, domain) ==
    host = domain \/ endswith(host, <<".">> \o domain)

\* C35: for allowed_domains that are host names, normalize_url returns a URL only
\* if the URL's host is one of the allowed domains or a dot-separated subdomain
\* of one, so a host that merely ends with the characters of an allowed domain
\* is rejected; and an absolute URL whose host is an allowed domain is returned
\* also when its netloc carries an explicit port.
C35_HostMatchOnLabels ==
    (/\ fn.op = "normalize_url" /\ fn.done
     /\ \A d \in SeqToSet(fn.arg.allowed_domains) : HostOf(d) = d)
        => LET parsed == urljoin(fn.arg.base_url, fn.arg.url)
               matches == \E d \in SeqToSet(fn.arg.allowed_domains) :
                              HostMatches(HostOf(parsed.netloc), d)
           IN /\ fn.out.once # <<>> => matches
              /\ (parsed.scheme # "" /\ parsed.netloc # <<>> /\ matches)
                    => fn.out.once # <<>>

-----------------------------------------------------------------------------
(* The empty Disallow line (SpecFn) *)

\* the values of the `field` lines of a robots.txt text that are not empty
NonEmptyValues(text, field) ==
    { text[k][2] : k \in { j \in DOMAIN text : text[j][1] = field /\ text[j][2] # <<>> } }

\* C36: when the block that applies to the crawler has a `Disallow:` line with
\* an empty value, the line imposes no restriction: is_allowed on the parsed
\* policy returns true for every path that no other disallow rule of the block
\* matches (and that the allow rules of the block, if there are any, match).
C36_EmptyDisallowAllowsAll ==
    (/\ fn.op = "robots_config.is_allowed" /\ fn.done
     /\ \E k \in DOMAIN fn.arg.text : fn.arg.text[k] = <<"Disallow", <<>> >>
     /\ \A d \in NonEmptyValues(fn.arg.text, "Disallow") : ~startswith(fn.arg.url.path, d)
     /\ \/ NonEmptyValues(fn.arg.text, "Allow") = {}
        \/ \E a \in NonEmptyValues(fn.arg.text, "Allow") : startswith(fn.arg.url.path, a))
        => fn.out.allowed

-----------------------------------------------------------------------------
(* mcp_server.api.main: the crawl tasks of the API, followed from the state in
   which the POST /api/v1/crawl handler has stored a task record and scheduled
   execute_crawl_task for it, against the cleanup_old_tasks loop *)

TaskIds == {"crawl_1", "crawl_2"}

\* tasks[task_id] = {"status": "initiated", "agent": agent, "created_at": ..., "type": "crawl"}
NewTask(created_at) ==
    [status |-> "initiated", created_at |-> created_at, type |-> "crawl",
     result |-> <<>>, error |-> <<>>]

\* DocumentationAgent.execute_task: an exception of the crawl or of the processing
\* is caught and answered with AgentResult(success=False, error=str(e)); the
\* call itself returns in both cases
P_execute_task(crawl_ok) ==
    [raised |-> FALSE,
     result |-> [success |-> crawl_ok, error |-> IF crawl_ok THEN <<>> ELSE <<"crawl failed">>]]

\* tasks[task_id].update({"status": "completed", "result": result, ...})
P_Completed(task, result) == [task EXCEPT !.status = "completed", !.result = <<result>>]

\* tasks[task_id].update({"status": "failed", "error": str(e), ...})
P_Failed(task, e) == [task EXCEPT !.status = "failed", !.error = <<e>>]

\* cleanup_old_tasks: the ids whose record is older than TASK_TTL
expired_tasks(ts, current_time, ttl) ==
    { task_id \in DOMAIN ts : current_time - ts[task_id].created_at > ttl }

\* d.pop(task_id, None) for every id of `ids`
PopAll(d, ids) == [task_id \in DOMAIN d \ ids |-> d[task_id]]

\* a scheduled execute_crawl_task call: where it is, and what the agent's crawl did
Scheduled == [pc |-> "scheduled", crawl_ok |-> TRUE, exception |-> <<>>]

InitApi ==
    /\ impl = "PlaywrightCrawler"
    /\ CrawlIdle /\ GateIdle
    /\ handlers = {} /\ gotoLog = <<>>
    /\ fn = [op |-> "", arg |-> <<>>, done |-> FALSE, out |-> <<>>]
    /\ PageIdle /\ TasksIdle
    /\ tasks = [task_id \in TaskIds |-> NewTask(0)]
    /\ task_ttl \in 0..MaxInterval
    /\ background = [task_id \in TaskIds |-> Scheduled]
    /\ statusLog = [task_id \in TaskIds |-> <<"initiated">>]

apiFrame == <<crawlVars, last_request_time, gate, firstEntry, exits, handlers, gotoLog,
              fn, pageVars, taskVars>>

\* time passes
Api_Tick ==
    /\ clock + 1 <= MaxClock
    /\ clock' = clock + 1
    /\ UNCHANGED <<apiVars, apiFrame>>

\* execute_crawl_task up to its await: task = tasks[task_id] (outside the try),
\* tasks[task_id]["status"] = "processing", then agent.execute_task is awaited
Api_Start ==
    /\ \E task_id \in TaskIds :
         /\ background[task_id].pc = "scheduled"
         /\ IF task_id \in DOMAIN tasks
            THEN /\ tasks' = [tasks EXCEPT ![task_id].status = "processing"]
                 /\ statusLog' = [statusLog EXCEPT ![task_id] = Append(@, "processing")]
                 /\ background' = [background EXCEPT ![task_id].pc = "awaiting"]
            ELSE /\ background' = [background EXCEPT ![task_id].pc = "raised",
                                                     ![task_id].exception = <<"KeyError">>]
                 /\ UNCHANGED <<tasks, statusLog>>
    /\ UNCHANGED <<clock, task_ttl, apiFrame>>

\* execute_crawl_task from the return of agent.execute_task on: the update to
\* "completed"; a KeyError of that update is caught by `except Exception`, whose
\* own tasks[task_id].update(...) raises KeyError again, out of the function
Api_Return ==
    /\ \E task_id \in TaskIds, crawl_ok \in BOOLEAN :
         /\ background[task_id].pc = "awaiting"
         /\ LET answer == P_execute_task(crawl_ok) IN
            IF answer.raised
            THEN IF task_id \in DOMAIN tasks
                 THEN /\ tasks' = [tasks EXCEPT ![task_id] = P_Failed(@, "error")]
                      /\ statusLog' = [statusLog EXCEPT ![task_id] = Append(@, "failed")]
                      /\ background' = [background EXCEPT ![task_id].pc = "returned",
                                                          ![task_id].crawl_ok = crawl_ok]
                 ELSE /\ background' = [background EXCEPT ![task_id].pc = "raised",
                                                          ![task_id].crawl_ok = crawl_ok,
                                                          ![task_id].exception = <<"KeyError">>]
                      /\ UNCHANGED <<tasks, statusLog>>
            ELSE IF task_id \in DOMAIN tasks
                 THEN /\ tasks' = [tasks EXCEPT ![task_id] = P_Completed(@, answer.result)]
                      /\ statusLog' = [statusLog EXCEPT ![task_id] = Append(@, "completed")]
                      /\ background' = [background EXCEPT ![task_id].pc = "returned",
                                                          ![task_id].crawl_ok = crawl_ok]
                 ELSE /\ background' = [background EXCEPT ![task_id].pc = "raised",
                                                          ![task_id].crawl_ok = crawl_ok,
                                                          ![task_id].exception = <<"KeyError">>]
                      /\ UNCHANGED <<tasks, statusLog>>
    /\ UNCHANGED <<clock, task_ttl, apiFrame>>

\* one pass of the `while True` loop of cleanup_old_tasks
Api_Cleanup ==
    /\ expired_tasks(tasks, clock, task_ttl) # {}
    /\ tasks' = PopAll(tasks, expired_tasks(tasks, clock, task_ttl))
    /\ UNCHANGED <<clock, task_ttl, background, statusLog, apiFrame>>

NextApi ==
    \/ Api_Tick
    \/ Api_Start
    \/ Api_Return
    \/ Api_Cleanup

SpecApi == InitApi /\ [][NextApi]_vars

\* a is b or the beginning of b
IsPrefix(a, b) == Len(a) <= Len(b) /\ SubSeq(b, 1, Len(a)) = a

StatusesInOrder(task_id) ==
    \/ IsPrefix(statusLog[task_id], <<"initiated", "processing", "completed">>)
    \/ IsPrefix(statusLog[task_id], <<"initiated", "processing", "failed">>)

FailedWhenCrawlFailed(task_id) ==
    (background[task_id].pc = "returned" /\ ~background[task_id].crawl_ok)
        => statusLog[task_id][Len(statusLog[task_id])] = "failed"

NeverRaises(task_id) == background[task_id].pc # "raised"

-----------------------------------------------------------------------------
(* The chunker (SpecFn) *)

\* the words of every chunk, one chunk after the other
RECURSIVE WordsOf(_)
WordsOf(chunks) ==
    IF chunks = <<>> THEN <<>> ELSE split(Head(chunks), <<>>) \o WordsOf(Tail(chunks))

\* C38: for a text none of whose words is longer than max_chars, chunk_text
\* returns chunks that are each non-empty and at most max_chars characters long,
\* and the words of the chunks, taken in order, are exactly the words of the text.
C38_ChunksWithinLimit ==
    (/\ fn.op = "chunk_text" /\ fn.done
     /\ \A w \in SeqToSet(split(fn.arg.text, <<>>)) : Len(w) <= fn.arg.max_chars)
        => /\ \A k \in DOMAIN fn.out :
                /\ fn.out[k] # <<>>
                /\ Len(fn.out[k]) <= fn.arg.max_chars
           /\ WordsOf(fn.out) = split(fn.arg.text, <<>>)

====
